---- MODULE Spec2Model ----
(***************************************************************************)
(* Model of the pull-request aggregation and enrichment pipeline of        *)
(* AzureDevOpsService (src/unnamed/part_002).                              *)
(*                                                                         *)
(* Spec        one aggregation cycle of getActivePullRequests: the raw     *)
(*             fetch of every selector and the three enrichment calls of   *)
(*             every pull request are HTTP requests in flight, and every   *)
(*             action is the handler that runs when one response arrives   *)
(*             (RxJS runs the operators downstream of a response           *)
(*             synchronously, so the joins are part of that handler).      *)
(* SpecEnrich  the enrichment of one pull request as a function of the     *)
(*             three resolved sub-calls, over every bounded thread list.   *)
(* SpecClassify  handleHttpError over every error and operation.          *)
(* SpecAuth    a cycle of one selector with updateCurrentPAT interleaved.  *)
(* SpecView    PullRequestsComponent: refreshes in flight, the response    *)
(*             handler with auto-pin, and the filter handlers.             *)
(* SpecSuggest one cycle of getPullRequestSuggestions.                     *)
(* SpecRelay   one connection of the streaming relay of backend-server.js  *)
(*             (src/src/app/district-easy-logon) with the EventSource      *)
(*             client of EasyLogonService (src/unnamed/part_005).          *)
(***************************************************************************)
EXTENDS Integers, Sequences, FiniteSets, TLC

\* ------------------------------------------------------------------ bounds
MaxSelectors == 2
MaxPRs == 2
MaxThreads == 2
MaxComments == 1

\* ------------------------------------------------- JavaScript values
\* An optional value: <<>> is undefined, <<v>> is the value v.
Undefined == <<>>
Def(v) == <<v>>
IsDefined(x) == Len(x) = 1
Val(x) == x[1]

\* The object {} that handleHttpError resolves with: reading any field of it
\* yields undefined.  Every response object is this record with some fields set.
EmptyObject ==
  [isNull |-> FALSE, value |-> Undefined, count |-> Undefined,
   mergeStatus |-> Undefined, isDraft |-> Undefined]

\* A null response body: reading a field of it throws a TypeError.
Null == [EmptyObject EXCEPT !.isNull = TRUE]

\* { value: v, count: n }
PullRequestResponse(v, n) ==
  [EmptyObject EXCEPT !.value = Def(v), !.count = Def(n)]

\* An HttpErrorResponse carries a status; a thrown TypeError has none.
\* Status 0 is what HttpClient reports for a request that got no response.
HttpStatuses == {0} \cup (100..599)
\* The statuses the requests of an aggregation cycle fail with.
CycleStatuses == {401, 500}
HttpErrorResponse(s) == [hasStatus |-> TRUE, status |-> s]
TypeError == [hasStatus |-> FALSE, status |-> 0]
Errors == {HttpErrorResponse(s) : s \in HttpStatuses} \cup {TypeError}

\* ------------------------------------------------- handleHttpError
MsgAuthInvalid == <<"Authentication failed. Your Personal Access Token may be invalid or expired.">>
MsgAuthForbidden == <<"Access forbidden. Your Personal Access Token may not have the required permissions.">>
MsgNetwork == <<"Network error occurred.">>
MsgGeneric(s) == <<"Error occurred while fetching data", s>>

\* Mutant: the 403 branch is missing.
authErrorMessageNoForbidden(error) ==
  IF error.hasStatus /\ error.status = 401 THEN MsgAuthInvalid
  ELSE IF (~error.hasStatus) \/ error.status = 0 THEN MsgNetwork
  ELSE MsgGeneric(error.status)

\* The message handleHttpError emits on authError$ for an error.
authErrorMessage(error) ==
  IF error.hasStatus /\ error.status = 401 THEN MsgAuthInvalid
  ELSE IF error.hasStatus /\ error.status = 403 THEN MsgAuthForbidden
  ELSE IF (~error.hasStatus) \/ error.status = 0 THEN MsgNetwork
  ELSE MsgGeneric(error.status)

\* The operation names handleHttpError is built with.
Operations ==
  {"getActivePullRequests", "getActivePullRequestsFromProject",
   "getActivePullRequestsByRepo", "getPullRequestThreads",
   "getPullRequestBuilds-branch", "getPullRequestBuildsFromTimeline",
   "getPullRequestMergeStatus", "getPipelineBuilds", "getPipelineRuns",
   "getBuildTimeline", "getPullRequestSuggestions", "getRepositoryId",
   "getPullRequestSuggestionsForRepository"}

\* handleHttpError(operation)(error): the message emitted on authError$ and the
\* value the call resolves with, of({} as T); the operation is only logged.
handleHttpError(operation, error) ==
  [message |-> authErrorMessage(error), value |-> EmptyObject]

\* ------------------------------------------------- data of a pull request
SeqUpTo(S, n) == UNION {[1..m -> S] : m \in 0..n}

CommentTypes == {"text", "system"}
PullRequestComment == [commentType : CommentTypes, isDeleted : BOOLEAN]
ThreadStatuses == {"active", "fixed"}
PullRequestThread ==
  [status : ThreadStatuses, isDeleted : BOOLEAN,
   comments : SeqUpTo(PullRequestComment, MaxComments)]
ThreadLists == SeqUpTo(PullRequestThread, MaxThreads)

MergeStatuses == {"succeeded", "conflicts", "queued"}

\* String.prototype.toLowerCase on the vendor's status states and on the words
\* of the titles.
toLowerCase(state) ==
  CASE state = "Succeeded" -> "succeeded"
    [] state = "notSet" -> "notset"
    [] state = "notApplicable" -> "notapplicable"
    [] state = "Update" -> "update"
    [] state = "LOGIN" -> "login"
    [] state = "Fix" -> "fix"
    [] state = "Bump" -> "bump"
    [] OTHER -> state

StatusStates == {"succeeded", "Succeeded", "failed", "error", "pending", "notSet", "notApplicable"}
StatusGenres == {"continuous-integration", "pr-policy"}
\* A status may come without a context.
StatusContexts == {Undefined} \cup {Def([genre |-> genre]) : genre \in StatusGenres}
StatusEvent == [context : StatusContexts, state : StatusStates]

mapStatusToBuildStatus(state) ==
  CASE toLowerCase(state) \in {"succeeded", "failed", "error"} -> "completed"
    [] toLowerCase(state) = "pending" -> "inProgress"
    [] OTHER -> "notStarted"

\* Mutant: the case "error" is missing from the switch.
mapStatusToBuildResultWithoutError(state) ==
  CASE toLowerCase(state) = "succeeded" -> Def("succeeded")
    [] toLowerCase(state) = "failed" -> Def("failed")
    [] OTHER -> Undefined

mapStatusToBuildResult(state) ==
  CASE toLowerCase(state) = "succeeded" -> Def("succeeded")
    [] toLowerCase(state) \in {"failed", "error"} -> Def("failed")
    [] OTHER -> Undefined

\* Array.prototype.filter: the subsequence of the elements satisfying keep.
Filter(seq, keep(_)) == SelectSeq(seq, keep)

\* status.context && status.context.genre === "continuous-integration"
IsCI(status) ==
  /\ IsDefined(status.context)
  /\ Val(status.context).genre = "continuous-integration"

\* The map of getPullRequestBuildsFromTimeline: statuses -> { value: builds }.
BuildsFromStatuses(statuses) ==
  LET ci == Filter(statuses, IsCI)
  IN  [k \in DOMAIN ci |->
        [status |-> mapStatusToBuildStatus(ci[k].state),
         result |-> mapStatusToBuildResult(ci[k].state),
         sourceBranch |-> ""]]

\* ------------------------------------------------- the Per-PR Enricher
\* Mutant: system comments are counted.
IsCountedIgnoringType(c) == ~c.isDeleted

\* (c) => !c.isDeleted && c.commentType !== "system"
IsCounted(c) == ~c.isDeleted /\ c.commentType # "system"

\* thread.comments.filter(c => !c.isDeleted && c.commentType !== "system").length
CountedComments(thread) == Len(Filter(thread.comments, IsCounted))

\* threads.value.reduce((count, thread) => count + <counted comments>, 0)
RECURSIVE commentCount(_)
commentCount(threads) ==
  IF threads = <<>> THEN 0
  ELSE CountedComments(Head(threads)) + commentCount(Tail(threads))

IsUnresolved(thread) == ~thread.isDeleted /\ thread.status = "active"

\* threads.value.filter(t => !t.isDeleted && t.status === "active").length
unresolvedCommentCount(threads) == Len(Filter(threads, IsUnresolved))

\* The record of the catchError branch of the per-PR forkJoin.
DefaultEnrichment(pr) ==
  [pullRequestId |-> pr.pullRequestId, repository |-> pr.repository,
   threads |-> Def(<<>>), builds |-> Def(<<>>),
   commentCount |-> 0, unresolvedCommentCount |-> 0,
   mergeStatus |-> Def("unknown"), isDraft |-> Def(FALSE),
   hasConflicts |-> FALSE, canMerge |-> FALSE,
   projectName |-> Undefined]

\* Mutant: canMerge is every status but "conflicts".
MappedEnrichmentCanMergeUnlessConflicts(pr, threads, builds, mergeStatus) ==
  [pullRequestId |-> pr.pullRequestId, repository |-> pr.repository,
   threads |-> threads.value, builds |-> builds.value,
   commentCount |-> commentCount(Val(threads.value)),
   unresolvedCommentCount |-> unresolvedCommentCount(Val(threads.value)),
   mergeStatus |-> mergeStatus.mergeStatus, isDraft |-> mergeStatus.isDraft,
   hasConflicts |-> (mergeStatus.mergeStatus = Def("conflicts")),
   canMerge |-> (mergeStatus.mergeStatus # Def("conflicts")),
   projectName |-> Undefined]

\* The record of the map branch of the per-PR forkJoin; threads, builds and
\* mergeStatus are the values the three sub-calls resolved with.
MappedEnrichment(pr, threads, builds, mergeStatus) ==
  [pullRequestId |-> pr.pullRequestId, repository |-> pr.repository,
   threads |-> threads.value, builds |-> builds.value,
   commentCount |-> commentCount(Val(threads.value)),
   unresolvedCommentCount |-> unresolvedCommentCount(Val(threads.value)),
   mergeStatus |-> mergeStatus.mergeStatus, isDraft |-> mergeStatus.isDraft,
   hasConflicts |-> (mergeStatus.mergeStatus = Def("conflicts")),
   canMerge |-> (mergeStatus.mergeStatus = Def("succeeded")),
   projectName |-> Undefined]

\* Mutant: the join fails whenever any of the three sub-calls resolved with {}.
MapThrowsOnAnyFailure(threads, builds, mergeStatus) ==
  \/ ~IsDefined(threads.value)
  \/ ~IsDefined(builds.value)
  \/ ~IsDefined(mergeStatus.mergeStatus)

\* The map function throws a TypeError exactly when it calls reduce / filter on
\* an undefined threads.value; builds.value and the fields of mergeStatus are
\* only read, and reading an absent field does not throw.
MapThrows(threads, builds, mergeStatus) == ~IsDefined(threads.value)

\* forkJoin({threads, builds, mergeStatus}).pipe(map(...), catchError(...)):
\* the one record emitted for a pull request once its three sub-calls resolved.
EnrichPullRequest(pr, threads, builds, mergeStatus) ==
  IF MapThrows(threads, builds, mergeStatus)
  THEN DefaultEnrichment(pr)
  ELSE MappedEnrichment(pr, threads, builds, mergeStatus)

\* ------------------------------------------------- the selectors
\* "" stands for an absent (falsy) name or repository.
ProjectConfig ==
  { [name |-> "", repository |-> ""],
    [name |-> "ProjA", repository |-> ""],
    [name |-> "ProjB", repository |-> "RepoX"] }
SelectorLists == SeqUpTo(ProjectConfig, MaxSelectors)

\* ------------------------------------------------- the remote repository
\* The k-th active pull request the server lists for a selector.
ServerPullRequest(config, k) ==
  [pullRequestId |-> k,
   repository |-> [name |-> IF config.repository # "" THEN config.repository
                            ELSE IF k % 2 = 1 THEN "RepoX" ELSE "RepoY"]]

ServerPage(config, n) == [k \in 1..n |-> ServerPullRequest(config, k)]

\* What the server holds for a pull request in the aggregation cycle.
ServerThreads(pr) ==
  IF pr.pullRequestId % 2 = 1
  THEN << [status |-> "active", isDeleted |-> FALSE,
           comments |-> << [commentType |-> "text", isDeleted |-> FALSE] >>],
          [status |-> "fixed", isDeleted |-> FALSE,
           comments |-> << [commentType |-> "text", isDeleted |-> FALSE] >>] >>
  ELSE << [status |-> "fixed", isDeleted |-> FALSE,
           comments |-> << [commentType |-> "text", isDeleted |-> FALSE] >>] >>

ServerStatuses(pr) ==
  << [context |-> Def([genre |-> "continuous-integration"]), state |-> "succeeded"],
     [context |-> Def([genre |-> "pr-policy"]), state |-> "pending"] >>

ServerDetail(pr) ==
  IF pr.pullRequestId % 2 = 1
  THEN [mergeStatus |-> "succeeded", isDraft |-> FALSE]
  ELSE [mergeStatus |-> "conflicts", isDraft |-> TRUE]

\* ------------------------------------------------- state
VARIABLES
  cycle,           \* "idle", "running" or "done": the getActivePullRequests subscription
  projectsToUse,   \* the selector list of the cycle
  requests,        \* requests[i]: the observable built for selector i
  emitted,         \* what getActivePullRequests emitted: Undefined or Def(response)
  lastAuthError,   \* the last message emitted on authError$: Undefined or Def(message)
  authErrorCount,  \* the number of messages emitted on authError$
  enrichIn,        \* SpecEnrich: the pull request and its three resolved sub-calls
  enriched,        \* SpecEnrich: Undefined or Def(the enriched record)
  classifyIn,      \* SpecClassify: the operation and the error handed to handleHttpError
  classified,      \* SpecClassify: Undefined or Def(the value the call resolved with)
  currentPAT,      \* AzureDevOpsService.currentPAT
  issuedRequests,  \* the HTTP requests issued so far, each with its Authorization header
  \* PullRequestsComponent
  pullRequests, filteredPullRequests, selectedRepositories, selectedAuthors,
  showDrafts, pinnedAuthors, isLoading, patPromptMessage,
  isPATPromptModalOpen,
  loadError,          \* PullRequestsComponent.error: null is Undefined
  refreshes,          \* the number of loadPullRequests calls so far
  inFlightRefreshes,  \* the refreshes whose aggregate has not been emitted yet
  applied,            \* the refreshes whose response was handled, in that order
  lastResponse,       \* the response handed to the next handler last
  suggestionChecks,   \* the number of checkForPullRequestSuggestions calls so far
  currentProjects,    \* PullRequestsComponent.currentProjects, none hidden
  \* getPullRequestSuggestions
  suggestionProjects,  \* the selector list of the suggestion cycle
  suggestionRequests,  \* suggestionRequests[i]: the observable built for selector i
  suggestionsEmitted,  \* what getPullRequestSuggestions emitted: Undefined or Def(value)
  \* GET /api/easy-logon/stream
  connection,          \* "none", "open", "lost", "clientClosed" or "serverEnded"
  helper,              \* the child process: "none", "spawnFailed", "running", "errored", "exited"
  ignoresSigterm,      \* whether the helper's code ignores SIGTERM
  childKilled,         \* child.killed
  signals,             \* the signals delivered to the helper process
  killTimer,           \* the setTimeout of req.on("close"): "unset", "armed", "fired"
  resEvents,           \* the events written to res before it was ended
  responseEnded,       \* res.end() has been called
  writesAfterEnd,      \* the res.write / res.end calls made after res.end()
  reqClosed,           \* the req.on("close") handler has run
  dataEvents,          \* the number of stdout / stderr chunks relayed
  \* EasyLogonService.startEasyLogonWithStream
  eventSource,         \* "none", "open" or "closed"
  delivered,           \* the number of events of resEvents handed to onmessage
  observer,            \* the subscriber: "none", "active", "completed", "errored"
  observed,            \* the messages passed to observer.next
  logonStatus,         \* logonStatus.value
  \* getPullRequestBuildsFromTimeline
  statusesResponse,    \* SpecBuilds: response.value of the statuses call
  timelineBuilds,      \* SpecBuilds: Undefined or Def(the builds derived from it)
  \* PullRequestCardComponent
  currentPr,           \* SpecRelated: the pull request of the card
  cardPullRequests,    \* SpecRelated: the allPullRequests input of the card
  related              \* SpecRelated: Undefined or Def(getRelatedPullRequests(pr))

serviceVars ==
  <<cycle, projectsToUse, requests, emitted, lastAuthError, authErrorCount,
    enrichIn, enriched, classifyIn, classified, currentPAT, issuedRequests>>

viewVars ==
  <<pullRequests, filteredPullRequests, selectedRepositories, selectedAuthors,
    showDrafts, pinnedAuthors, isLoading, loadError, patPromptMessage,
    isPATPromptModalOpen, refreshes, inFlightRefreshes, applied, lastResponse,
    suggestionChecks, currentProjects>>

suggestionVars == <<suggestionProjects, suggestionRequests, suggestionsEmitted>>

relayVars ==
  <<connection, helper, ignoresSigterm, childKilled, signals, killTimer,
    resEvents, responseEnded, writesAfterEnd, reqClosed, dataEvents>>

clientVars == <<eventSource, delivered, observer, observed, logonStatus>>

functionVars ==
  <<statusesResponse, timelineBuilds, currentPr, cardPullRequests, related>>

vars ==
  <<serviceVars, viewVars, suggestionVars, relayVars, clientVars, functionVars>>

\* A call in flight is Undefined; a resolved call is Def([ok, value]): ok tells
\* whether the HTTP request succeeded, value is what its observable resolved with.
Resolved(ok, value) == Def([ok |-> ok, value |-> value])

NoEnrichInput ==
  [pr |-> ServerPullRequest([name |-> "ProjA", repository |-> ""], 1),
   threads |-> Undefined, builds |-> Undefined, mergeStatus |-> Undefined]

NoClassifyInput == [operation |-> "getActivePullRequests", error |-> TypeError]

\* AZURE_DEVOPS_CONFIG.pat, the value currentPAT is constructed with.
ConfigPAT == ""

\* The service right after construction: no request has been issued.
CredentialInit ==
  /\ currentPAT = ConfigPAT
  /\ issuedRequests = {}

\* The project list ConfigStorageService loads and projects$ delivers to the
\* component.
StoredProjects ==
  << [name |-> "ProjB", repository |-> "RepoX"], [name |-> "ProjA", repository |-> ""] >>

\* The field initialisers of PullRequestsComponent, with the stored project
\* list delivered; null is Undefined.
ViewInit ==
  /\ pullRequests = <<>>
  /\ filteredPullRequests = <<>>
  /\ selectedRepositories = {}
  /\ selectedAuthors = {}
  /\ showDrafts = FALSE
  /\ pinnedAuthors = {}
  /\ isLoading = FALSE
  /\ loadError = Undefined
  /\ patPromptMessage = Undefined
  /\ isPATPromptModalOpen = FALSE
  /\ refreshes = 0
  /\ inFlightRefreshes = {}
  /\ applied = <<>>
  /\ lastResponse = Undefined
  /\ suggestionChecks = 0
  /\ currentProjects = StoredProjects

\* The stream endpoint has not been requested, and the field initialisers of
\* EasyLogonService.
RelayInit ==
  /\ connection = "none"
  /\ helper = "none"
  /\ ignoresSigterm = FALSE
  /\ childKilled = FALSE
  /\ signals = {}
  /\ killTimer = "unset"
  /\ resEvents = <<>>
  /\ responseEnded = FALSE
  /\ writesAfterEnd = 0
  /\ reqClosed = FALSE
  /\ dataEvents = 0
  /\ eventSource = "none"
  /\ delivered = 0
  /\ observer = "none"
  /\ observed = <<>>
  /\ logonStatus = [isRunning |-> FALSE, lastRun |-> Undefined,
                    lastSuccess |-> Undefined, message |-> Undefined]

\* No statuses response and no card: the inputs of SpecBuilds and SpecRelated.
FunctionInit ==
  /\ statusesResponse = <<>>
  /\ timelineBuilds = Undefined
  /\ currentPr = Undefined
  /\ cardPullRequests = <<>>
  /\ related = Undefined

\* No getPullRequestSuggestions call has been made.
SuggestionInit ==
  /\ suggestionProjects = <<>>
  /\ suggestionRequests = <<>>
  /\ suggestionsEmitted = Undefined

Init ==
  /\ cycle = "idle"
  /\ projectsToUse = <<>>
  /\ requests = <<>>
  /\ emitted = Undefined
  /\ lastAuthError = Undefined
  /\ authErrorCount = 0
  /\ enrichIn = NoEnrichInput
  /\ enriched = Undefined
  /\ classifyIn = NoClassifyInput
  /\ classified = Undefined
  /\ CredentialInit
  /\ ViewInit
  /\ SuggestionInit
  /\ RelayInit
  /\ FunctionInit

\* `Basic ${btoa(":" + pat)}`: basic authentication with the empty user name.
BasicAuth(pat) == [scheme |-> "Basic", user |-> "", password |-> pat]

\* Mutant: the header is built from the configured token, not from currentPAT.
AuthorizationFromConfig == BasicAuth(ConfigPAT)

\* The Authorization header a method builds when it is called.
Authorization == BasicAuth(currentPAT)

\* this.http.get(url, { headers }) subscribed: one HTTP request on the wire.
HttpGet(operation, selector, pullRequest, repositoryId) ==
  [operation |-> operation, selector |-> selector, pullRequest |-> pullRequest,
   repositoryId |-> repositoryId, authorization |-> Authorization]

Issue(httpRequests) == issuedRequests' = issuedRequests \cup httpRequests

NoRequestIssued == UNCHANGED issuedRequests

\* authErrorSubject.next(message)
EmitAuthError(message) ==
  /\ lastAuthError' = Def(message)
  /\ authErrorCount' = authErrorCount + 1

NoAuthError == UNCHANGED <<lastAuthError, authErrorCount>>

\* ------------------------------------------------- the Aggregator
\* Mutant: stamps the repository name where the selector's name belongs.
StampWithRepository(pr, projectName) ==
  [pr EXCEPT !.projectName = Def(pr.repository.name)]

\* pr.projectName = projectName
Stamp(pr, projectName) == [pr EXCEPT !.projectName = Def(projectName)]

\* The forEach of the map of getActivePullRequests, from response index on.
RECURSIVE MergeFrom(_, _, _)
MergeFrom(projects, responses, index) ==
  IF index > Len(responses) THEN <<>>
  ELSE LET response == responses[index]
           skip == \/ index > Len(projects)
                   \/ ~IsDefined(response.value)
           stamped == [k \in DOMAIN Val(response.value) |->
                         Stamp(Val(response.value)[k], projects[index].name)]
       IN  (IF skip THEN <<>> ELSE stamped)
             \o MergeFrom(projects, responses, index + 1)

\* Mutant: count is the number of responses, not of pull requests.
MergeResponsesCountsResponses(projects, responses) ==
  PullRequestResponse(MergeFrom(projects, responses, 1), Len(responses))

\* map((responses) => ({ value: allPullRequests, count: allPullRequests.length }))
MergeResponses(projects, responses) ==
  LET allPullRequests == MergeFrom(projects, responses, 1)
  IN  PullRequestResponse(allPullRequests, Len(allPullRequests))

\* The observable of one selector right after subscription.
SkippedRequest ==
  [st |-> "done", raw |-> Undefined, prs |-> <<>>,
   result |-> Def(PullRequestResponse(<<>>, 0))]
PendingRequest ==
  [st |-> "pending", raw |-> Undefined, prs |-> <<>>, result |-> Undefined]

AllSettled(r) ==
  \A k \in DOMAIN r.prs :
    /\ IsDefined(r.prs[k].threads)
    /\ IsDefined(r.prs[k].builds)
    /\ IsDefined(r.prs[k].mergeStatus)

EnrichEntry(e) ==
  EnrichPullRequest(e.pr, Val(e.threads).value, Val(e.builds).value,
                    Val(e.mergeStatus).value)

\* forkJoin(threadRequests).pipe(map(prs => ({ value: prs, count: prs.length }))):
\* emits once every pull request of the selector has its enriched record.
JoinSelector(r) ==
  IF r.st = "enriching" /\ AllSettled(r)
  THEN [r EXCEPT !.st = "done",
                 !.result = Def(PullRequestResponse(
                                  [k \in DOMAIN r.prs |-> EnrichEntry(r.prs[k])],
                                  Len(r.prs)))]
  ELSE r

\* forkJoin(requests).pipe(map(...)): runs at the end of every handler; the
\* aggregate is emitted by the handler of the response that settles the last
\* selector.
Join(projects, rs) ==
  LET joined == [i \in DOMAIN rs |-> JoinSelector(rs[i])]
  IN  /\ requests' = joined
      /\ IF \A i \in DOMAIN joined : joined[i].st = "done"
         THEN /\ emitted' = Def(MergeResponses(projects, [i \in DOMAIN joined |-> Val(joined[i].result)]))
              /\ cycle' = "done"
         ELSE /\ emitted' = Undefined
              /\ cycle' = "running"

\* ------------------------------------------------- actions of a cycle
PipelineIdle ==
  UNCHANGED <<enrichIn, enriched, classifyIn, classified, currentPAT,
              viewVars, suggestionVars, relayVars, clientVars,
              functionVars>>

\* The list call of a selector: by repository when one is configured.
RawRequest(config, i) ==
  HttpGet(IF config.repository # "" THEN "getActivePullRequestsByRepo"
          ELSE "getActivePullRequestsFromProject", i, 0, config.repository)

\* The three enrichment calls of pull request k of selector i, built and
\* subscribed inside the switchMap once the list call has answered.
EnrichmentRequests(i, k, pr) ==
  {HttpGet(operation, i, k, pr.repository.name) :
     operation \in {"getPullRequestThreads", "getPullRequestBuildsFromTimeline",
                    "getPullRequestMergeStatus"}}

\* getActivePullRequests(projects) is called and subscribed: one raw fetch is
\* issued per selector that has a name.
GetActivePullRequests(projects) ==
  /\ cycle = "idle"
  /\ projectsToUse' = projects
  /\ IF Len(projects) = 0
     THEN /\ requests' = <<>>
          /\ emitted' = Def(PullRequestResponse(<<>>, 0))
          /\ cycle' = "done"
     ELSE Join(projects, [i \in DOMAIN projects |->
                 IF projects[i].name = "" THEN SkippedRequest ELSE PendingRequest])
  /\ Issue({RawRequest(projects[i], i) :
              i \in {j \in DOMAIN projects : projects[j].name # ""}})
  /\ NoAuthError
  /\ PipelineIdle

\* The number of raw pull requests returned so far in the cycle.
RECURSIVE RawCountFrom(_, _)
RawCountFrom(rs, i) ==
  IF i > Len(rs) THEN 0 ELSE Len(rs[i].prs) + RawCountFrom(rs, i + 1)

\* Mutant: the failure of a raw fetch is not caught where it happens; it fails
\* forkJoin(requests) and only the catchError of getActivePullRequests sees it.
RawFetchFailsOutward(i, status) ==
  /\ cycle = "running"
  /\ requests[i].st = "pending"
  /\ LET h == handleHttpError("getActivePullRequests", HttpErrorResponse(status))
     IN  /\ EmitAuthError(h.message)
         /\ emitted' = Def(h.value)
  /\ requests' = [requests EXCEPT ![i].st = "error",
                                  ![i].raw = Resolved(FALSE, EmptyObject)]
  /\ cycle' = "done"
  /\ NoRequestIssued
  /\ UNCHANGED projectsToUse
  /\ PipelineIdle

\* The raw fetch of selector i fails with an HTTP status: handleHttpError
\* resolves it with {}, and the switchMap turns that into an empty page.
RawFetchFails(i, status) ==
  /\ cycle = "running"
  /\ requests[i].st = "pending"
  /\ LET h == handleHttpError(IF projectsToUse[i].repository # ""
                              THEN "getActivePullRequestsByRepo"
                              ELSE "getActivePullRequestsFromProject",
                              HttpErrorResponse(status))
     IN  /\ EmitAuthError(h.message)
         /\ Join(projectsToUse, [requests EXCEPT ![i] =
                   [st |-> "done", raw |-> Resolved(FALSE, h.value), prs |-> <<>>,
                    result |-> Def(PullRequestResponse(<<>>, 0))]])
  /\ NoRequestIssued
  /\ UNCHANGED projectsToUse
  /\ PipelineIdle

\* The raw fetch of selector i returns a page of n pull requests: the three
\* enrichment calls of each are issued (none for an empty page).
RawFetchSucceeds(i, n) ==
  /\ cycle = "running"
  /\ requests[i].st = "pending"
  /\ RawCountFrom(requests, 1) + n <= MaxPRs
  /\ LET page == ServerPage(projectsToUse[i], n)
         body == PullRequestResponse(page, n)
     IN  Join(projectsToUse, [requests EXCEPT ![i] =
               IF n = 0
               THEN [st |-> "done", raw |-> Resolved(TRUE, body), prs |-> <<>>,
                     result |-> Def(PullRequestResponse(<<>>, 0))]
               ELSE [st |-> "enriching", raw |-> Resolved(TRUE, body),
                     prs |-> [k \in 1..n |->
                               [pr |-> page[k], threads |-> Undefined,
                                builds |-> Undefined, mergeStatus |-> Undefined]],
                     result |-> Undefined]])
  /\ Issue(UNION {EnrichmentRequests(i, k, ServerPage(projectsToUse[i], n)[k]) :
                    k \in 1..n})
  /\ NoAuthError
  /\ UNCHANGED projectsToUse
  /\ PipelineIdle

\* The raw fetch of selector i returns a null body: response.value throws in
\* the switchMap, forkJoin(requests) fails and unsubscribes from the other
\* selectors, and the catchError of getActivePullRequests resolves with {}.
RawFetchReturnsNull(i) ==
  /\ cycle = "running"
  /\ requests[i].st = "pending"
  /\ LET h == handleHttpError("getActivePullRequests", TypeError)
     IN  /\ EmitAuthError(h.message)
         /\ emitted' = Def(h.value)
  /\ requests' = [requests EXCEPT ![i].st = "error",
                                  ![i].raw = Resolved(TRUE, Null)]
  /\ cycle' = "done"
  /\ NoRequestIssued
  /\ UNCHANGED projectsToUse
  /\ PipelineIdle

InFlight(i, k, call) ==
  /\ cycle = "running"
  /\ i \in DOMAIN requests
  /\ requests[i].st = "enriching"
  /\ k \in DOMAIN requests[i].prs
  /\ ~IsDefined(requests[i].prs[k][call])

\* getPullRequestThreads of pull request k of selector i succeeds.
ThreadsSucceeds(i, k) ==
  /\ InFlight(i, k, "threads")
  /\ NoAuthError
  /\ Join(projectsToUse, [requests EXCEPT ![i].prs[k].threads =
            Resolved(TRUE, [EmptyObject EXCEPT !.value =
                              Def(ServerThreads(requests[i].prs[k].pr))])])
  /\ NoRequestIssued
  /\ UNCHANGED projectsToUse
  /\ PipelineIdle

\* getPullRequestThreads fails: its catchError resolves it through handleHttpError.
ThreadsFails(i, k, status) ==
  /\ InFlight(i, k, "threads")
  /\ LET h == handleHttpError("getPullRequestThreads", HttpErrorResponse(status))
     IN  /\ EmitAuthError(h.message)
         /\ Join(projectsToUse,
                 [requests EXCEPT ![i].prs[k].threads = Resolved(FALSE, h.value)])
  /\ NoRequestIssued
  /\ UNCHANGED projectsToUse
  /\ PipelineIdle

\* getPullRequestBuildsFromTimeline (the statuses call) succeeds: its map derives
\* the builds from the statuses.
BuildsSucceeds(i, k) ==
  /\ InFlight(i, k, "builds")
  /\ NoAuthError
  /\ Join(projectsToUse, [requests EXCEPT ![i].prs[k].builds =
            Resolved(TRUE, [EmptyObject EXCEPT !.value =
              Def(BuildsFromStatuses(ServerStatuses(requests[i].prs[k].pr)))])])
  /\ NoRequestIssued
  /\ UNCHANGED projectsToUse
  /\ PipelineIdle

\* The statuses call fails: the catchError inside getPullRequestBuildsFromTimeline
\* resolves it through handleHttpError, so the observable never fails outward
\* and the catchError that would call getPullRequestBuilds has nothing to catch.
BuildsFails(i, k, status) ==
  /\ InFlight(i, k, "builds")
  /\ LET h == handleHttpError("getPullRequestBuildsFromTimeline", HttpErrorResponse(status))
     IN  /\ EmitAuthError(h.message)
         /\ Join(projectsToUse,
                 [requests EXCEPT ![i].prs[k].builds = Resolved(FALSE, h.value)])
  /\ NoRequestIssued
  /\ UNCHANGED projectsToUse
  /\ PipelineIdle

\* getPullRequestMergeStatus (the pull-request detail call) succeeds.
MergeStatusSucceeds(i, k) ==
  /\ InFlight(i, k, "mergeStatus")
  /\ NoAuthError
  /\ LET detail == ServerDetail(requests[i].prs[k].pr)
     IN  Join(projectsToUse, [requests EXCEPT ![i].prs[k].mergeStatus =
               Resolved(TRUE, [EmptyObject EXCEPT
                                 !.mergeStatus = Def(detail.mergeStatus),
                                 !.isDraft = Def(detail.isDraft)])])
  /\ NoRequestIssued
  /\ UNCHANGED projectsToUse
  /\ PipelineIdle

\* getPullRequestMergeStatus fails: resolved through handleHttpError.
MergeStatusFails(i, k, status) ==
  /\ InFlight(i, k, "mergeStatus")
  /\ LET h == handleHttpError("getPullRequestMergeStatus", HttpErrorResponse(status))
     IN  /\ EmitAuthError(h.message)
         /\ Join(projectsToUse,
                 [requests EXCEPT ![i].prs[k].mergeStatus = Resolved(FALSE, h.value)])
  /\ NoRequestIssued
  /\ UNCHANGED projectsToUse
  /\ PipelineIdle

Next ==
  \/ \E projects \in SelectorLists : GetActivePullRequests(projects)
  \/ \E i \in DOMAIN requests, status \in CycleStatuses : RawFetchFails(i, status)
  \/ \E i \in DOMAIN requests, n \in 0..MaxPRs : RawFetchSucceeds(i, n)
  \/ \E i \in DOMAIN requests : RawFetchReturnsNull(i)
  \/ \E i \in DOMAIN requests, k \in 1..MaxPRs : ThreadsSucceeds(i, k)
  \/ \E i \in DOMAIN requests, k \in 1..MaxPRs, status \in CycleStatuses :
       ThreadsFails(i, k, status)
  \/ \E i \in DOMAIN requests, k \in 1..MaxPRs : BuildsSucceeds(i, k)
  \/ \E i \in DOMAIN requests, k \in 1..MaxPRs, status \in CycleStatuses :
       BuildsFails(i, k, status)
  \/ \E i \in DOMAIN requests, k \in 1..MaxPRs : MergeStatusSucceeds(i, k)
  \/ \E i \in DOMAIN requests, k \in 1..MaxPRs, status \in CycleStatuses :
       MergeStatusFails(i, k, status)

Spec == Init /\ [][Next]_vars

\* ------------------------------------------------- SpecEnrich
\* The enrichment of one pull request, applied to the resolved values of its
\* three sub-calls.  A failed sub-call has resolved with handleHttpError's {}.
SamplePullRequest == ServerPullRequest([name |-> "ProjA", repository |-> ""], 1)

ThreadsBody(threads) == [EmptyObject EXCEPT !.value = Def(threads)]
BuildsBody(statuses) == [EmptyObject EXCEPT !.value = Def(BuildsFromStatuses(statuses))]
DetailBody(mergeStatus, isDraft) ==
  [EmptyObject EXCEPT !.mergeStatus = Def(mergeStatus), !.isDraft = Def(isDraft)]

FailedCall == Resolved(FALSE, EmptyObject)

DetailResults ==
  {FailedCall} \cup
  {Resolved(TRUE, DetailBody(m, d)) : m \in MergeStatuses, d \in BOOLEAN}

\* Every bounded thread list, with the other two sub-calls succeeded.
EnrichInputsOverThreads ==
  [pr : {SamplePullRequest},
   threads : {Resolved(TRUE, ThreadsBody(t)) : t \in ThreadLists},
   builds : {Resolved(TRUE, BuildsBody(ServerStatuses(SamplePullRequest)))},
   mergeStatus : {Resolved(TRUE, DetailBody("queued", FALSE))}]

\* Every combination of failed and succeeded sub-calls, and every detail.
EnrichInputsOverFailures ==
  [pr : {SamplePullRequest},
   threads : {FailedCall, Resolved(TRUE, ThreadsBody(ServerThreads(SamplePullRequest)))},
   builds : {FailedCall, Resolved(TRUE, BuildsBody(ServerStatuses(SamplePullRequest)))},
   mergeStatus : DetailResults]

InitEnrich ==
  /\ cycle = "idle"
  /\ projectsToUse = <<>>
  /\ requests = <<>>
  /\ emitted = Undefined
  /\ lastAuthError = Undefined
  /\ authErrorCount = 0
  /\ enrichIn \in EnrichInputsOverThreads \cup EnrichInputsOverFailures
  /\ enriched = Undefined
  /\ classifyIn = NoClassifyInput
  /\ classified = Undefined
  /\ CredentialInit
  /\ ViewInit
  /\ SuggestionInit
  /\ RelayInit
  /\ FunctionInit

\* The per-PR forkJoin emits: its map, or its catchError, builds the record.
Enrich ==
  /\ ~IsDefined(enriched)
  /\ enriched' = Def(EnrichPullRequest(enrichIn.pr, Val(enrichIn.threads).value,
                                       Val(enrichIn.builds).value,
                                       Val(enrichIn.mergeStatus).value))
  /\ UNCHANGED <<cycle, projectsToUse, requests, emitted, lastAuthError,
                 authErrorCount, enrichIn, classifyIn, classified,
                 currentPAT, issuedRequests, viewVars, suggestionVars,
                 relayVars, clientVars,
              functionVars>>

NextEnrich == Enrich

SpecEnrich == InitEnrich /\ [][NextEnrich]_vars

\* ------------------------------------------------- SpecClassify
\* handleHttpError applied to every error, for every operation.
InitClassify ==
  /\ cycle = "idle"
  /\ projectsToUse = <<>>
  /\ requests = <<>>
  /\ emitted = Undefined
  /\ lastAuthError = Undefined
  /\ authErrorCount = 0
  /\ enrichIn = NoEnrichInput
  /\ enriched = Undefined
  /\ classifyIn \in [operation : Operations, error : Errors]
  /\ classified = Undefined
  /\ CredentialInit
  /\ ViewInit
  /\ SuggestionInit
  /\ RelayInit
  /\ FunctionInit

\* A call of some operation fails and its catchError runs handleHttpError.
Classify ==
  /\ ~IsDefined(classified)
  /\ LET h == handleHttpError(classifyIn.operation, classifyIn.error)
     IN  /\ EmitAuthError(h.message)
         /\ classified' = Def(h.value)
  /\ UNCHANGED <<cycle, projectsToUse, requests, emitted, enrichIn, enriched,
                 classifyIn, currentPAT, issuedRequests, viewVars,
                 suggestionVars, relayVars, clientVars,
              functionVars>>

NextClassify == Classify

SpecClassify == InitClassify /\ [][NextClassify]_vars

\* ------------------------------------------------- properties: the Aggregator
RawFailed(i) == IsDefined(requests[i].raw) /\ ~Val(requests[i].raw).ok
RawSucceeded(i) ==
  /\ IsDefined(requests[i].raw)
  /\ Val(requests[i].raw).ok
  /\ ~Val(requests[i].raw).value.isNull
NoRawFetch(i) == projectsToUse[i].name = ""

\* The raw pull requests the fetch of selector i returned.
RawPage(i) ==
  IF RawSucceeded(i) THEN Val(Val(requests[i].raw).value.value) ELSE <<>>

RECURSIVE RawSum(_)
RawSum(i) == IF i = 0 THEN 0 ELSE Len(RawPage(i)) + RawSum(i - 1)

\* The position before the first item of selector i in the aggregate.
Offset(i) == RawSum(i - 1)

CallOk(call) == IsDefined(call) /\ Val(call).ok
CallFailed(call) == IsDefined(call) /\ ~Val(call).ok

EnrichmentSucceeded(i) ==
  \A k \in DOMAIN requests[i].prs :
    /\ CallOk(requests[i].prs[k].threads)
    /\ CallOk(requests[i].prs[k].builds)
    /\ CallOk(requests[i].prs[k].mergeStatus)

\* The raw fetch of every selector that has a name returned a page, and every
\* enrichment call of every pull request succeeded.
EverySubFetchSucceeded ==
  \A i \in DOMAIN requests :
    /\ RawSucceeded(i) \/ NoRawFetch(i)
    /\ Len(requests[i].prs) = Len(RawPage(i))
    /\ EnrichmentSucceeded(i)

Items == Val(Val(emitted).value)

\* The number of items of the aggregate that are raw pull request pr of a
\* selector named name.
Copies(name, pr) ==
  Cardinality({j \in DOMAIN Items :
                 /\ Items[j].projectName = Def(name)
                 /\ Items[j].pullRequestId = pr.pullRequestId
                 /\ Items[j].repository = pr.repository})

\* The number of raw pull requests equal to pr returned for selectors named name.
Returned(name, pr) ==
  Cardinality({ik \in (DOMAIN requests) \X (1..MaxPRs) :
                 /\ projectsToUse[ik[1]].name = name
                 /\ ik[2] \in DOMAIN RawPage(ik[1])
                 /\ RawPage(ik[1])[ik[2]] = pr})

\* C1: when the raw fetch of every selector and every enrichment sub-call
\* succeeded, the cycle has emitted an aggregate whose length and whose count
\* field both equal the sum over the selectors of the raw pull requests
\* returned, and every raw pull request occurs in it exactly as often as it
\* was returned: none is dropped, none is duplicated.
C1_AggregateSizeIsSumOfRawCounts ==
  (cycle = "done" /\ Len(requests) > 0 /\ EverySubFetchSucceeded) =>
    /\ IsDefined(emitted)
    /\ IsDefined(Val(emitted).value)
    /\ Len(Items) = RawSum(Len(requests))
    /\ Val(emitted).count = Def(RawSum(Len(requests)))
    /\ \A i \in DOMAIN requests : \A k \in DOMAIN RawPage(i) :
         Copies(projectsToUse[i].name, RawPage(i)[k])
           = Returned(projectsToUse[i].name, RawPage(i)[k])

\* Two selectors each returned a pull request, everything succeeded, and the
\* aggregate of the two has been emitted.
C1_Witness ==
  /\ cycle = "done"
  /\ Len(requests) = 2
  /\ EverySubFetchSucceeded
  /\ Len(RawPage(1)) = 1
  /\ Len(RawPage(2)) = 1
  /\ IsDefined(emitted)
  /\ Val(emitted).count = Def(2)

\* C2: in every aggregate emitted, whatever sub-calls failed, every item has
\* a non-empty projectName, and it is the name of the selector whose fetch
\* returned the item: the items of the i-th selector, in the order returned,
\* follow those of the selectors before it and carry the i-th name.
C2_ItemsCarryTheirSelectorsName ==
  (IsDefined(emitted) /\ IsDefined(Val(emitted).value)) =>
    /\ \A j \in DOMAIN Items :
         /\ IsDefined(Items[j].projectName)
         /\ Val(Items[j].projectName) # ""
         /\ \E i \in DOMAIN requests : \E k \in DOMAIN RawPage(i) :
              /\ j = Offset(i) + k
              /\ Items[j].projectName = Def(projectsToUse[i].name)
              /\ Items[j].pullRequestId = RawPage(i)[k].pullRequestId
              /\ Items[j].repository = RawPage(i)[k].repository

\* An aggregate of two items with different project names, one of them of a
\* pull request with a failed sub-call.
C2_Witness ==
  /\ IsDefined(emitted)
  /\ IsDefined(Val(emitted).value)
  /\ Len(Items) = 2
  /\ Items[1].projectName = Def("ProjB")
  /\ Items[2].projectName = Def("ProjA")
  /\ \E i \in DOMAIN requests : ~EnrichmentSucceeded(i)

\* C3: when the raw fetch of some selector failed (with any status) and the
\* raw fetch of every other selector returned a page, the aggregate emitted
\* contains every pull request of the other selectors, in place, and nothing
\* else: none for a failed selector.
C3_FailedSelectorDoesNotAbortTheOthers ==
  ( /\ cycle = "done"
    /\ \E i \in DOMAIN requests : RawFailed(i)
    /\ \A i \in DOMAIN requests : RawFailed(i) \/ RawSucceeded(i) \/ NoRawFetch(i) ) =>
    /\ IsDefined(emitted)
    /\ IsDefined(Val(emitted).value)
    /\ Len(Items) = RawSum(Len(requests))
    /\ \A i \in DOMAIN requests : \A k \in DOMAIN RawPage(i) :
         /\ Items[Offset(i) + k].pullRequestId = RawPage(i)[k].pullRequestId
         /\ Items[Offset(i) + k].repository = RawPage(i)[k].repository
         /\ Items[Offset(i) + k].projectName = Def(projectsToUse[i].name)

\* The first selector's fetch failed, the second returned two pull requests,
\* and the aggregate holds those two.
C3_Witness ==
  /\ cycle = "done"
  /\ Len(requests) = 2
  /\ RawFailed(1)
  /\ RawSucceeded(2)
  /\ Len(RawPage(2)) = 2
  /\ IsDefined(emitted)
  /\ IsDefined(Val(emitted).value)
  /\ Len(Items) = 2

\* ------------------------------------------------- properties: the Enricher
\* The comments of a thread list that are neither deleted nor of type "system".
CountedIn(threads) ==
  Cardinality({tc \in (DOMAIN threads) \X (1..MaxComments) :
                 /\ tc[2] \in DOMAIN threads[tc[1]].comments
                 /\ ~threads[tc[1]].comments[tc[2]].isDeleted
                 /\ threads[tc[1]].comments[tc[2]].commentType # "system"})

\* The threads of a thread list that are not deleted and have status "active".
ActiveIn(threads) ==
  Cardinality({t \in DOMAIN threads :
                 ~threads[t].isDeleted /\ threads[t].status = "active"})

\* The fields the enricher adds, as the catchError branch sets them.
IsDefaultRecord(rec) ==
  /\ rec.threads = Def(<<>>)
  /\ rec.builds = Def(<<>>)
  /\ rec.commentCount = 0
  /\ rec.unresolvedCommentCount = 0
  /\ rec.mergeStatus = Def("unknown")
  /\ rec.isDraft = Def(FALSE)
  /\ rec.hasConflicts = FALSE
  /\ rec.canMerge = FALSE

\* The enriched records selector i resolved with.
Records(i) == Val(Val(requests[i].result).value)

\* Selector i has joined the enrichment of its pull requests.
Enriched(i) == requests[i].st = "done" /\ Len(requests[i].prs) > 0

\* Exactly one record per raw pull request, and the enrichment never fails
\* outward: once every sub-call of a selector has settled the selector has
\* resolved, with as many records as raw pull requests, in their order.
OneRecordPerPullRequest ==
  \A i \in DOMAIN requests :
    /\ (requests[i].st = "enriching") => ~AllSettled(requests[i])
    /\ Enriched(i) =>
         /\ Len(Records(i)) = Len(requests[i].prs)
         /\ \A k \in DOMAIN requests[i].prs :
              /\ Records(i)[k].pullRequestId = requests[i].prs[k].pr.pullRequestId
              /\ Records(i)[k].repository = requests[i].prs[k].pr.repository

C5_ThreadFailureKeepsDetailAndBuilds ==
  (IsDefined(emitted) /\ IsDefined(Val(emitted).value)) =>
    \A i \in DOMAIN requests : \A k \in DOMAIN requests[i].prs :
      LET e == requests[i].prs[k]
          item == Items[Offset(i) + k]
      IN  (CallFailed(e.threads) /\ CallOk(e.builds) /\ CallOk(e.mergeStatus)) =>
            /\ item.pullRequestId = e.pr.pullRequestId
            /\ item.commentCount = 0
            /\ item.unresolvedCommentCount = 0
            /\ item.mergeStatus = Val(e.mergeStatus).value.mergeStatus
            /\ item.isDraft = Val(e.mergeStatus).value.isDraft
            /\ item.builds = Val(e.builds).value.value

\* C10 as stated: every failed call has resolved (its observable emitted a
\* value instead of failing) and the value is the empty value of its shape:
\* an empty page for the raw list calls, an empty list for the thread call
\* and for the build call.
C10_FailedCallsResolveWithEmptyShape ==
  \A i \in DOMAIN requests :
    /\ RawFailed(i) =>
         /\ Val(requests[i].raw).value.value = Def(<<>>)
         /\ Val(requests[i].raw).value.count = Def(0)
    /\ \A k \in DOMAIN requests[i].prs :
         /\ CallFailed(requests[i].prs[k].threads) =>
              Val(requests[i].prs[k].threads).value.value = Def(<<>>)
         /\ CallFailed(requests[i].prs[k].builds) =>
              Val(requests[i].prs[k].builds).value.value = Def(<<>>)

\* ------------------------------------------------- properties: the counts
Threads == Val(Val(enrichIn.threads).value.value)

AllSubCallsOk ==
  CallOk(enrichIn.threads) /\ CallOk(enrichIn.builds) /\ CallOk(enrichIn.mergeStatus)

\* C6 as stated: for every enriched pull request, whatever the threads and
\* comments, unresolvedCommentCount <= commentCount.
C6_UnresolvedAtMostCommentCount ==
  IsDefined(enriched) =>
    Val(enriched).unresolvedCommentCount <= Val(enriched).commentCount

\* C7: when all three sub-calls succeeded, commentCount is the number of
\* comments, over all threads, that are not deleted and whose type is not
\* "system".
C7_CommentCountExcludesDeletedAndSystem ==
  (IsDefined(enriched) /\ AllSubCallsOk) =>
    Val(enriched).commentCount = CountedIn(Threads)

\* Two threads, one with a counted comment and one with a system comment:
\* the enriched record counts one comment.
C7_Witness ==
  /\ IsDefined(enriched)
  /\ AllSubCallsOk
  /\ Len(Threads) = 2
  /\ \E t \in DOMAIN Threads : \E c \in DOMAIN Threads[t].comments :
       Threads[t].comments[c] = [commentType |-> "system", isDeleted |-> FALSE]
  /\ \E t \in DOMAIN Threads : \E c \in DOMAIN Threads[t].comments :
       Threads[t].comments[c] = [commentType |-> "text", isDeleted |-> FALSE]
  /\ Val(enriched).commentCount = 1

\* C8: for every enriched pull request, mapped or default, canMerge holds iff
\* mergeStatus is "succeeded", hasConflicts holds iff mergeStatus is
\* "conflicts", and the two are never both true.
C8_MergeFlagsFollowMergeStatus ==
  IsDefined(enriched) =>
    /\ Val(enriched).canMerge <=> (Val(enriched).mergeStatus = Def("succeeded"))
    /\ Val(enriched).hasConflicts <=> (Val(enriched).mergeStatus = Def("conflicts"))
    /\ ~(Val(enriched).canMerge /\ Val(enriched).hasConflicts)

\* A mapped record of a pull request whose detail reports conflicts.
C8_Witness ==
  /\ IsDefined(enriched)
  /\ AllSubCallsOk
  /\ Val(enriched).mergeStatus = Def("conflicts")
  /\ Val(enriched).hasConflicts
  /\ ~Val(enriched).canMerge

\* ------------------------------------------------- properties: the classifier
\* C9: handleHttpError classifies every error, by its status alone and
\* whatever the operation: 401 gives the invalid-credential message, 403 the
\* missing-scope message, status 0 or no status the network message, any
\* other status the generic message with that status; exactly one message is
\* emitted on authError$ per classified failure.
C9_ClassifierIsTotalAndByStatus ==
  IsDefined(classified) =>
    LET error == classifyIn.error
    IN  /\ authErrorCount = 1
        /\ IsDefined(lastAuthError)
        /\ (error.hasStatus /\ error.status = 401)
             => Val(lastAuthError) = MsgAuthInvalid
        /\ (error.hasStatus /\ error.status = 403)
             => Val(lastAuthError) = MsgAuthForbidden
        /\ (~error.hasStatus \/ error.status = 0)
             => Val(lastAuthError) = MsgNetwork
        /\ (error.hasStatus /\ error.status \notin {0, 401, 403})
             => Val(lastAuthError) = MsgGeneric(error.status)

\* A failure with status 403 has been classified as the missing-scope message.
C9_Witness ==
  /\ IsDefined(classified)
  /\ classifyIn.error = HttpErrorResponse(403)
  /\ lastAuthError = Def(MsgAuthForbidden)
  /\ authErrorCount = 1

\* ------------------------------------------------- properties: malformed pages
\* The list call of selector i answered with a null body.
NullBody(i) ==
  /\ IsDefined(requests[i].raw)
  /\ Val(requests[i].raw).ok
  /\ Val(requests[i].raw).value.isNull

\* C16 as stated: a malformed sub-response (here: a null body) for one
\* selector does not abort the aggregation: an aggregate is emitted, and it
\* contains, under the selector's name, every pull request the list calls of
\* the other selectors returned.
C16_MalformedSubResponseSkipsOnlyItsSelector ==
  (\E i \in DOMAIN requests : NullBody(i)) =>
    /\ IsDefined(emitted)
    /\ IsDefined(Val(emitted).value)
    /\ \A j \in DOMAIN requests : \A k \in DOMAIN RawPage(j) :
         \E n \in DOMAIN Items :
           /\ Items[n].pullRequestId = RawPage(j)[k].pullRequestId
           /\ Items[n].repository = RawPage(j)[k].repository
           /\ Items[n].projectName = Def(projectsToUse[j].name)

\* ------------------------------------------------- SpecAuth
\* An aggregation cycle of one selector during which the credential is written.
PATs == {"patA", "patB"}

\* updateCurrentPAT(pat)
UpdateCurrentPAT(pat) ==
  /\ currentPAT' = pat
  /\ UNCHANGED <<cycle, projectsToUse, requests, emitted, lastAuthError,
                 authErrorCount, enrichIn, enriched, classifyIn, classified,
                 issuedRequests, viewVars, suggestionVars, relayVars,
                 clientVars,
              functionVars>>

\* The selector lists of one selector.
SingleSelectorLists == {projects \in SelectorLists : Len(projects) = 1}

NextAuth ==
  \/ \E pat \in PATs : UpdateCurrentPAT(pat)
  \/ \E projects \in SingleSelectorLists : GetActivePullRequests(projects)
  \/ \E i \in DOMAIN requests, status \in CycleStatuses : RawFetchFails(i, status)
  \/ \E i \in DOMAIN requests, n \in 0..MaxPRs : RawFetchSucceeds(i, n)
  \/ \E i \in DOMAIN requests : RawFetchReturnsNull(i)
  \/ \E i \in DOMAIN requests, k \in 1..MaxPRs : ThreadsSucceeds(i, k)
  \/ \E i \in DOMAIN requests, k \in 1..MaxPRs, status \in CycleStatuses :
       ThreadsFails(i, k, status)
  \/ \E i \in DOMAIN requests, k \in 1..MaxPRs : BuildsSucceeds(i, k)
  \/ \E i \in DOMAIN requests, k \in 1..MaxPRs, status \in CycleStatuses :
       BuildsFails(i, k, status)
  \/ \E i \in DOMAIN requests, k \in 1..MaxPRs : MergeStatusSucceeds(i, k)
  \/ \E i \in DOMAIN requests, k \in 1..MaxPRs, status \in CycleStatuses :
       MergeStatusFails(i, k, status)

SpecAuth == Init /\ [][NextAuth]_vars

\* C19: every HTTP request issued by a step carries the basic-auth header of
\* the empty user name and the credential written last before that step,
\* whenever the cycle it belongs to was started: the enrichment calls of a
\* cycle whose list call was issued under an older credential carry the
\* newer one.
C19_RequestsCarryTheCurrentCredential ==
  [][\A r \in issuedRequests' \ issuedRequests :
       r.authorization = [scheme |-> "Basic", user |-> "", password |-> currentPAT]]_vars

\* The list call went out under patA, the credential was then written, and
\* the enrichment calls of the same cycle went out under patB.
C19_Witness ==
  /\ currentPAT = "patB"
  /\ \E r \in issuedRequests :
       /\ r.pullRequest = 0
       /\ r.authorization.password = "patA"
  /\ \E r \in issuedRequests :
       /\ r.operation = "getPullRequestThreads"
       /\ r.authorization.password = "patB"

\* ------------------------------------------------- the pull-requests view
MaxCollection == 2
MaxRefreshes == 2
MaxAuthErrors == 1

Authors == {"Alice", "Bob"}
RepositoryNames == {"RepoX", "RepoY"}

\* The enriched pull requests an aggregate is made of, with the fields the
\* view reads; isDraft is undefined on a record whose detail call failed.
EnrichedPullRequests ==
  { [pullRequestId |-> 1, repository |-> [name |-> "RepoX"],
     createdBy |-> [displayName |-> "Alice"], isDraft |-> Def(FALSE)],
    [pullRequestId |-> 2, repository |-> [name |-> "RepoY"],
     createdBy |-> [displayName |-> "Bob"], isDraft |-> Def(FALSE)],
    [pullRequestId |-> 3, repository |-> [name |-> "RepoY"],
     createdBy |-> [displayName |-> "Alice"], isDraft |-> Def(TRUE)],
    [pullRequestId |-> 4, repository |-> [name |-> "RepoX"],
     createdBy |-> [displayName |-> "Bob"], isDraft |-> Undefined] }

Collections == SeqUpTo(EnrichedPullRequests, MaxCollection)

\* The distinct author display names of a collection.
getUniqueAuthors(prs) == {prs[k].createdBy.displayName : k \in DOMAIN prs}

\* The repository names the summary lists: the configured ones and the ones
\* that have a pull request.
getProjectSummary(prs) ==
  {currentProjects[i].repository :
     i \in {j \in DOMAIN currentProjects : currentProjects[j].repository # ""}}
  \cup {prs[k].repository.name : k \in DOMAIN prs}

\* Mutant: the pinned authors replace a selection the user made.
applyAutomaticPinnedAuthorFiltersOverriding(prs, pinned, selected) ==
  LET activePinnedAuthors == getUniqueAuthors(prs) \cap pinned
  IN  IF activePinnedAuthors # {} THEN activePinnedAuthors ELSE selected

\* applyAutomaticPinnedAuthorFilters: the selectedAuthors it leaves.
applyAutomaticPinnedAuthorFilters(prs, pinned, selected) ==
  LET activePinnedAuthors == getUniqueAuthors(prs) \cap pinned
  IN  IF activePinnedAuthors # {} /\ selected = {}
      THEN selected \cup activePinnedAuthors
      ELSE selected

\* Mutant: the author selection is not applied.
applyFiltersIgnoringAuthors(prs, drafts, repositories, authors) ==
  LET noDrafts == IF ~drafts
                  THEN Filter(prs, LAMBDA pr : pr.isDraft # Def(TRUE))
                  ELSE prs
  IN  IF repositories # {}
      THEN Filter(noDrafts, LAMBDA pr : pr.repository.name \in repositories)
      ELSE noDrafts

\* Mutant: with an author selection the first match is dropped.
applyFiltersDroppingFirstMatch(prs, drafts, repositories, authors) ==
  LET noDrafts == IF ~drafts
                  THEN Filter(prs, LAMBDA pr : pr.isDraft # Def(TRUE))
                  ELSE prs
      byRepository ==
        IF repositories # {}
        THEN Filter(noDrafts, LAMBDA pr : pr.repository.name \in repositories)
        ELSE noDrafts
      byAuthor == Filter(byRepository, LAMBDA pr : pr.createdBy.displayName \in authors)
  IN  IF authors # {}
      THEN (IF byAuthor = <<>> THEN <<>> ELSE Tail(byAuthor))
      ELSE byRepository

\* applyFilters: the filteredPullRequests it leaves.  !pr.isDraft holds of a
\* pull request whose isDraft is false or undefined.
applyFilters(prs, drafts, repositories, authors) ==
  LET noDrafts == IF ~drafts
                  THEN Filter(prs, LAMBDA pr : pr.isDraft # Def(TRUE))
                  ELSE prs
      byRepository ==
        IF repositories # {}
        THEN Filter(noDrafts, LAMBDA pr : pr.repository.name \in repositories)
        ELSE noDrafts
  IN  IF authors # {}
      THEN Filter(byRepository, LAMBDA pr : pr.createdBy.displayName \in authors)
      ELSE byRepository

\* "Failed to load pull requests. Please check your configuration and try again."
MsgFailedToLoad == <<"Failed to load pull requests.">>

\* What a view handler leaves alone outside the component, authError$ apart.
OutsideIdle ==
  UNCHANGED <<cycle, projectsToUse, requests, emitted, enrichIn, enriched,
              classifyIn, classified, currentPAT, issuedRequests,
              suggestionVars, relayVars, clientVars, functionVars>>

\* The same for a handler that does not write the project list.
ServiceIdle ==
  /\ OutsideIdle
  /\ UNCHANGED currentProjects

\* Mutant: subscribing to a new aggregation unsubscribes from the previous one.
loadPullRequestsCancellingPrevious ==
  /\ refreshes < MaxRefreshes
  /\ isLoading' = TRUE
  /\ loadError' = Undefined
  /\ refreshes' = refreshes + 1
  /\ inFlightRefreshes' = {refreshes + 1}
  /\ UNCHANGED <<pullRequests, filteredPullRequests, selectedRepositories,
                 selectedAuthors, showDrafts, pinnedAuthors, patPromptMessage,
                 isPATPromptModalOpen, applied, lastResponse, suggestionChecks>>
  /\ NoAuthError
  /\ ServiceIdle

\* loadPullRequests() up to its subscribe: one more aggregation in flight;
\* nothing unsubscribes from the ones already in flight.
loadPullRequests ==
  /\ refreshes < MaxRefreshes
  /\ isLoading' = TRUE
  /\ loadError' = Undefined
  /\ refreshes' = refreshes + 1
  /\ inFlightRefreshes' = inFlightRefreshes \cup {refreshes + 1}
  /\ UNCHANGED <<pullRequests, filteredPullRequests, selectedRepositories,
                 selectedAuthors, showDrafts, pinnedAuthors, patPromptMessage,
                 isPATPromptModalOpen, applied, lastResponse, suggestionChecks>>
  /\ NoAuthError
  /\ ServiceIdle

\* A refresh nothing guards: the projects$ subscription, onProjectsUpdated,
\* onPATUpdated.
LoadPullRequests == loadPullRequests

\* The page becomes visible: a refresh unless one is shown as loading.
HandleVisibilityChange ==
  /\ ~isLoading
  /\ loadPullRequests

\* promptForPAT(message)
promptForPAT(message) ==
  /\ patPromptMessage' = Def(message)
  /\ isPATPromptModalOpen' = TRUE

\* A sub-call of an aggregation in flight fails: handleHttpError emits on
\* authError$ and the component's subscription runs promptForPAT.
AuthErrorReceived(status) ==
  /\ inFlightRefreshes # {}
  /\ authErrorCount < MaxAuthErrors
  /\ LET h == handleHttpError("getPullRequestThreads", HttpErrorResponse(status))
     IN  /\ EmitAuthError(h.message)
         /\ promptForPAT(h.message)
  /\ isLoading' = FALSE
  /\ UNCHANGED <<pullRequests, filteredPullRequests, selectedRepositories,
                 selectedAuthors, showDrafts, pinnedAuthors, loadError,
                 refreshes, inFlightRefreshes, applied, lastResponse,
                 suggestionChecks>>
  /\ ServiceIdle

\* The next handler of loadPullRequests, for the response of refresh id.
NextHandler(id, response) ==
  LET fetched == IF IsDefined(response.value) THEN Val(response.value) ELSE <<>>
      authors == applyAutomaticPinnedAuthorFilters(fetched, pinnedAuthors,
                                                   selectedAuthors)
  IN  /\ pullRequests' = fetched
      /\ selectedAuthors' = authors
      /\ filteredPullRequests' =
           applyFilters(fetched, showDrafts, selectedRepositories, authors)
      /\ isLoading' = FALSE
      /\ suggestionChecks' = suggestionChecks + 1
      /\ inFlightRefreshes' = inFlightRefreshes \ {id}
      /\ applied' = Append(applied, id)
      /\ lastResponse' = Def([refresh |-> id, response |-> response])
      /\ UNCHANGED <<selectedRepositories, showDrafts, pinnedAuthors, loadError,
                     refreshes>>

\* The aggregation of refresh id emits its aggregate.
LoadNext(id, prs) ==
  /\ id \in inFlightRefreshes
  /\ NextHandler(id, PullRequestResponse(prs, Len(prs)))
  /\ UNCHANGED <<patPromptMessage, isPATPromptModalOpen>>
  /\ NoAuthError
  /\ ServiceIdle

\* The aggregation of refresh id fails in its switchMap or its merge step (a
\* malformed page): the catchError of getActivePullRequests runs
\* handleHttpError, which emits on authError$ (the component prompts for a
\* token) and resolves with {}, and {} goes to the next handler.
LoadNextAfterFailedMerge(id) ==
  /\ id \in inFlightRefreshes
  /\ LET h == handleHttpError("getActivePullRequests", TypeError)
     IN  /\ EmitAuthError(h.message)
         /\ promptForPAT(h.message)
         /\ NextHandler(id, h.value)
  /\ ServiceIdle

\* onRepositorySelectionChanged(repositoryName), for a name the summary lists.
OnRepositorySelectionChanged(repositoryName) ==
  /\ repositoryName \in getProjectSummary(pullRequests)
  /\ selectedRepositories' =
       IF repositoryName \in selectedRepositories
       THEN selectedRepositories \ {repositoryName}
       ELSE selectedRepositories \cup {repositoryName}
  /\ filteredPullRequests' =
       applyFilters(pullRequests, showDrafts, selectedRepositories', selectedAuthors)
  /\ UNCHANGED <<pullRequests, selectedAuthors, showDrafts, pinnedAuthors,
                 isLoading, loadError, patPromptMessage, isPATPromptModalOpen,
                 refreshes, inFlightRefreshes, applied, lastResponse,
                 suggestionChecks>>
  /\ NoAuthError
  /\ ServiceIdle

\* onAuthorSelectionChanged(authorName), for an author the summary lists.
OnAuthorSelectionChanged(authorName) ==
  /\ authorName \in getUniqueAuthors(pullRequests)
  /\ selectedAuthors' =
       IF authorName \in selectedAuthors
       THEN selectedAuthors \ {authorName}
       ELSE selectedAuthors \cup {authorName}
  /\ filteredPullRequests' =
       applyFilters(pullRequests, showDrafts, selectedRepositories, selectedAuthors')
  /\ UNCHANGED <<pullRequests, selectedRepositories, showDrafts, pinnedAuthors,
                 isLoading, loadError, patPromptMessage, isPATPromptModalOpen,
                 refreshes, inFlightRefreshes, applied, lastResponse,
                 suggestionChecks>>
  /\ NoAuthError
  /\ ServiceIdle

\* toggleDraftVisibility()
ToggleDraftVisibility ==
  /\ showDrafts' = ~showDrafts
  /\ filteredPullRequests' =
       applyFilters(pullRequests, showDrafts', selectedRepositories, selectedAuthors)
  /\ UNCHANGED <<pullRequests, selectedRepositories, selectedAuthors,
                 pinnedAuthors, isLoading, loadError, patPromptMessage,
                 isPATPromptModalOpen, refreshes, inFlightRefreshes, applied,
                 lastResponse, suggestionChecks>>
  /\ NoAuthError
  /\ ServiceIdle

\* clearFilter()
ClearFilter ==
  /\ selectedRepositories' = {}
  /\ selectedAuthors' = {}
  /\ filteredPullRequests' = applyFilters(pullRequests, showDrafts, {}, {})
  /\ UNCHANGED <<pullRequests, showDrafts, pinnedAuthors, isLoading, loadError,
                 patPromptMessage, isPATPromptModalOpen, refreshes,
                 inFlightRefreshes, applied, lastResponse, suggestionChecks>>
  /\ NoAuthError
  /\ ServiceIdle

\* The pinnedAuthors$ subscription: the pinned set is replaced.
PinnedAuthorsChanged(pinned) ==
  /\ pinned # pinnedAuthors
  /\ pinnedAuthors' = pinned
  /\ UNCHANGED <<pullRequests, filteredPullRequests, selectedRepositories,
                 selectedAuthors, showDrafts, isLoading, loadError,
                 patPromptMessage, isPATPromptModalOpen, refreshes,
                 inFlightRefreshes, applied, lastResponse, suggestionChecks>>
  /\ NoAuthError
  /\ ServiceIdle

\* The lists onProjectAdded, onProjectRemoved and onProjectsReordered hand to
\* onProjectsUpdated: at least one project, none hidden.
ProjectLists ==
  { StoredProjects,
    << [name |-> "ProjA", repository |-> ""] >>,
    << [name |-> "ProjA", repository |-> ""], [name |-> "ProjB", repository |-> "RepoX"] >> }

\* onProjectsUpdated(projects).  configService.updateProjects stores the list
\* and calls _projects$.next, which runs the projects$ subscription of ngOnInit
\* synchronously: it assigns currentProjects and, the list not being empty,
\* calls loadPullRequests(); back in onProjectsUpdated the modal is closed and
\* loadPullRequests() is called again.  saved is whether localStorage.setItem
\* succeeds: when it throws, updateProjects does not emit.
OnProjectsUpdated(projects, saved) ==
  LET started == IF saved THEN 2 ELSE 1
  IN  /\ refreshes + started <= MaxRefreshes
      /\ currentProjects' = IF saved THEN projects ELSE currentProjects
      /\ isLoading' = TRUE
      /\ loadError' = Undefined
      /\ refreshes' = refreshes + started
      /\ inFlightRefreshes' =
           inFlightRefreshes \cup ((refreshes + 1)..(refreshes + started))
      /\ UNCHANGED <<pullRequests, filteredPullRequests, selectedRepositories,
                     selectedAuthors, showDrafts, pinnedAuthors, patPromptMessage,
                     isPATPromptModalOpen, applied, lastResponse, suggestionChecks>>
      /\ NoAuthError
      /\ OutsideIdle

NextView ==
  \/ LoadPullRequests
  \/ \E projects \in ProjectLists, saved \in BOOLEAN : OnProjectsUpdated(projects, saved)
  \/ HandleVisibilityChange
  \/ \E status \in {401} : AuthErrorReceived(status)
  \/ \E id \in 1..MaxRefreshes, prs \in Collections : LoadNext(id, prs)
  \/ \E id \in 1..MaxRefreshes : LoadNextAfterFailedMerge(id)
  \/ \E repositoryName \in RepositoryNames : OnRepositorySelectionChanged(repositoryName)
  \/ \E authorName \in Authors : OnAuthorSelectionChanged(authorName)
  \/ ToggleDraftVisibility
  \/ ClearFilter
  \/ \E pinned \in SUBSET Authors : PinnedAuthorsChanged(pinned)

SpecView == Init /\ [][NextView]_vars

\* ------------------------------------------------- properties: the view
AuthorOf(pr) == pr.createdBy.displayName

AppliedRefreshes == {applied[n] : n \in DOMAIN applied}

\* The collection a response carries: response.value || [].
Carried(response) ==
  IF IsDefined(response.value) THEN Val(response.value) ELSE <<>>

\* C11: in every step that applies an aggregation response, with seed the
\* pinned authors that have a pull request in the fetched collection (drafts
\* included): if selectedAuthors was empty and seed is not, selectedAuthors
\* becomes exactly seed and the filtered view of that same step holds no pull
\* request of any other author; otherwise selectedAuthors is unchanged.
C11_AutoPinSeedsOnlyAnEmptySelection ==
  [][Len(applied') > Len(applied) =>
       LET seed == pinnedAuthors \cap
                     {AuthorOf(pullRequests'[k]) : k \in DOMAIN pullRequests'}
       IN  IF selectedAuthors = {} /\ seed # {}
           THEN /\ selectedAuthors' = seed
                /\ \A k \in DOMAIN filteredPullRequests' :
                     AuthorOf(filteredPullRequests'[k]) \in seed
           ELSE selectedAuthors' = selectedAuthors]_vars

\* Alice is pinned, the first response holds Alice's and Bob's pull requests
\* and has just been applied: Alice is selected and only her pull request
\* is shown.
C11_Witness ==
  /\ Len(applied) = 1
  /\ ~isLoading
  /\ pinnedAuthors = {"Alice"}
  /\ selectedAuthors = {"Alice"}
  /\ {AuthorOf(pullRequests[k]) : k \in DOMAIN pullRequests} = {"Alice", "Bob"}
  /\ Len(filteredPullRequests) = 1
  /\ AuthorOf(filteredPullRequests[1]) = "Alice"

\* C12: in every state (every handler has returned), filteredPullRequests is
\* the subsequence of pullRequests of the pull requests that are not drafts
\* or showDrafts holds, whose repository is selected or none is, and whose
\* author is selected or none is, on the current filter state.
C12_FilteredViewMatchesFilterState ==
  filteredPullRequests =
    SelectSeq(pullRequests,
              LAMBDA pr :
                /\ (pr.isDraft # Def(TRUE)) \/ showDrafts
                /\ selectedRepositories = {} \/ pr.repository.name \in selectedRepositories
                /\ selectedAuthors = {} \/ AuthorOf(pr) \in selectedAuthors)

\* All three filters are set and keep one of two pull requests.
C12_Witness ==
  /\ showDrafts
  /\ selectedRepositories # {}
  /\ selectedAuthors # {}
  /\ Len(pullRequests) = 2
  /\ Len(filteredPullRequests) = 1

\* C13: for the collection and the filter state of every state, applying
\* applyFilters to its own result gives that result, and filteredPullRequests
\* is what one more call of applyFilters would leave.
C13_ApplyFiltersIsIdempotent ==
  LET once == applyFilters(pullRequests, showDrafts, selectedRepositories,
                           selectedAuthors)
  IN  /\ applyFilters(once, showDrafts, selectedRepositories, selectedAuthors) = once
      /\ applyFilters(filteredPullRequests, showDrafts, selectedRepositories,
                      selectedAuthors) = filteredPullRequests
      /\ filteredPullRequests = once

\* An author filter that keeps two pull requests and drops none, and one that
\* keeps one of two, are both idempotence cases; this is the second, with a
\* draft hidden as well.
C13_Witness ==
  /\ ~showDrafts
  /\ selectedAuthors = {"Alice"}
  /\ Len(pullRequests) = 2
  /\ \E k \in DOMAIN pullRequests : pullRequests[k].isDraft = Def(TRUE)
  /\ Len(filteredPullRequests) = 1

\* C17 as stated: once a response that made the merge step fail has been
\* handled and no refresh is in flight, error holds the "Failed to load pull
\* requests" message.
C17_FailedMergeSurfacesAsLoadError ==
  ( /\ IsDefined(lastResponse)
    /\ ~IsDefined(Val(lastResponse).response.value)
    /\ inFlightRefreshes = {} ) =>
    loadError = Def(MsgFailedToLoad)

\* C18: no refresh is cancelled (every refresh started is in flight or has
\* been applied, once), and the collection and the filtered view are those of
\* the response that resolved last, whichever refresh it belongs to.
C18_LastResolvedResponseWins ==
  /\ inFlightRefreshes \cup AppliedRefreshes = 1..refreshes
  /\ inFlightRefreshes \cap AppliedRefreshes = {}
  /\ Cardinality(AppliedRefreshes) = Len(applied)
  /\ IsDefined(lastResponse) =>
       /\ Val(lastResponse).refresh = applied[Len(applied)]
       /\ pullRequests = Carried(Val(lastResponse).response)
       /\ filteredPullRequests =
            applyFilters(Carried(Val(lastResponse).response), showDrafts,
                         selectedRepositories, selectedAuthors)

\* Refresh 2 was started while refresh 1 was in flight and resolved first;
\* the collection is the one refresh 1 brought.
C18_Witness ==
  /\ applied = <<2, 1>>
  /\ Val(lastResponse).refresh = 1
  /\ IsDefined(Val(lastResponse).response.value)
  /\ pullRequests = Val(Val(lastResponse).response.value)
  /\ Len(pullRequests) = 2

\* C20 as stated: selectedAuthors is a subset of the author names present in
\* pullRequests, and selectedRepositories a subset of the repository names
\* present in it.
C20_SelectionsWithinPresentValues ==
  /\ selectedAuthors \subseteq getUniqueAuthors(pullRequests)
  /\ selectedRepositories \subseteq
       {pullRequests[k].repository.name : k \in DOMAIN pullRequests}

\* ------------------------------------------------- the Suggestion Resolver
MaxSuggestions == 2

\* What the repositories call of a project can list.
ServerListings ==
  { <<>>,
    << [name |-> "RepoX", id |-> "id1"] >>,
    << [name |-> "RepoY", id |-> "id2"], [name |-> "RepoX", id |-> "id1"] >>,
    << [name |-> "RepoX", id |-> "id1"], [name |-> "RepoX", id |-> "id3"] >>,
    << [name |-> "repox", id |-> "id2"] >> }

\* The bodies of a successful repositories call: { value: listing }, or an
\* object without a value.
ListingBodies ==
  {[EmptyObject EXCEPT !.value = Def(listing)] : listing \in ServerListings}
  \cup {EmptyObject}

\* A value of type string | null, or the {} a failed call resolves with;
\* interpolated into a URL, {} reads "[object Object]".
IdString(id) == [kind |-> "string", id |-> id]
IdNull == [kind |-> "null", id |-> ""]
IdObject(object) == [kind |-> "object", id |-> "[object Object]"]

\* if (repositoryId): null and "" are falsy, an object is truthy.
Truthy(repositoryId) ==
  \/ repositoryId.kind = "object"
  \/ repositoryId.kind = "string" /\ repositoryId.id # ""

\* response.value?.find((r) => r.name === repositoryName); repo ? repo.id : null
FindRepositoryId(body, repositoryName) ==
  IF ~IsDefined(body.value) THEN IdNull
  ELSE LET listing == Val(body.value)
           matches == {k \in DOMAIN listing : listing[k].name = repositoryName}
       IN  IF matches = {} THEN IdNull
           ELSE IdString(listing[CHOOSE k \in matches :
                                   \A m \in matches : k <= m].id)

\* A value of type PullRequestSuggestion[]: an array, or the {} a failed call
\* resolves with, which is not iterable.
ArrayOf(items) == [isArray |-> TRUE, items |-> items]
NotAnArray(object) == [isArray |-> FALSE, items |-> <<>>]

ServerSuggestion(repositoryId, k) == [repositoryId |-> repositoryId, branch |-> k]

ServerSuggestions(repositoryId, n) ==
  [k \in 1..n |-> ServerSuggestion(repositoryId, k)]

\* authErrorSubject.next for each message, in order.
EmitAuthErrors(messages) ==
  IF messages = <<>> THEN NoAuthError
  ELSE /\ lastAuthError' = Def(messages[Len(messages)])
       /\ authErrorCount' = authErrorCount + Len(messages)

\* What the suggestion cycle leaves alone.
SuggestionIdle ==
  UNCHANGED <<cycle, projectsToUse, requests, emitted, enrichIn, enriched,
              classifyIn, classified, currentPAT, viewVars, relayVars,
              clientVars,
              functionVars>>

\* The observable of one selector: of([]) for a selector without name or
\* without repository, else the repositories call with its switchMap.
NoSuggestionRequest ==
  [st |-> "done", listing |-> Undefined, repositoryId |-> Undefined,
   suggestions |-> Undefined, result |-> Def(ArrayOf(<<>>))]
ListingRequest ==
  [st |-> "listing", listing |-> Undefined, repositoryId |-> Undefined,
   suggestions |-> Undefined, result |-> Undefined]

RECURSIVE Concat(_, _)
Concat(results, index) ==
  IF index > Len(results) THEN <<>>
  ELSE results[index].items \o Concat(results, index + 1)

\* forkJoin(requests).pipe(map(...), catchError(...)) of
\* getPullRequestSuggestions, run at the end of every handler: once every
\* selector has resolved, allSuggestions.push(...suggestions) for each; the
\* spread of a value that is not iterable throws, and the catchError resolves
\* through handleHttpError.  messages are the ones the handler emitted before.
JoinSuggestions(rs, messages) ==
  /\ suggestionRequests' = rs
  /\ IF \A i \in DOMAIN rs : rs[i].st = "done"
     THEN LET results == [i \in DOMAIN rs |-> Val(rs[i].result)]
              h == handleHttpError("getPullRequestSuggestions", TypeError)
          IN  IF \E i \in DOMAIN results : ~results[i].isArray
              THEN /\ suggestionsEmitted' = Def(NotAnArray(h.value))
                   /\ EmitAuthErrors(Append(messages, h.message))
              ELSE /\ suggestionsEmitted' = Def(ArrayOf(Concat(results, 1)))
                   /\ EmitAuthErrors(messages)
     ELSE /\ suggestionsEmitted' = Undefined
          /\ EmitAuthErrors(messages)

\* getPullRequestSuggestions(projects) is called and subscribed: one
\* repositories call is issued per selector that has a name and a repository.
GetPullRequestSuggestions(projects) ==
  /\ suggestionRequests = <<>>
  /\ ~IsDefined(suggestionsEmitted)
  /\ suggestionProjects' = projects
  /\ IF Len(projects) = 0
     THEN /\ suggestionRequests' = <<>>
          /\ suggestionsEmitted' = Def(ArrayOf(<<>>))
          /\ NoAuthError
     ELSE JoinSuggestions([i \in DOMAIN projects |->
                             IF projects[i].name # "" /\ projects[i].repository # ""
                             THEN ListingRequest ELSE NoSuggestionRequest],
                          <<>>)
  /\ Issue({HttpGet("getRepositoryId", i, 0, "") :
              i \in {j \in DOMAIN projects :
                       projects[j].name # "" /\ projects[j].repository # ""}})
  /\ SuggestionIdle

\* The switchMap after getRepositoryId: a truthy id issues the suggestions
\* call for it, anything else resolves the selector with [].
AfterRepositoryId(i, listing, repositoryId, messages) ==
  IF Truthy(repositoryId)
  THEN /\ JoinSuggestions([suggestionRequests EXCEPT ![i] =
                             [st |-> "suggesting", listing |-> listing,
                              repositoryId |-> Def(repositoryId),
                              suggestions |-> Undefined, result |-> Undefined]],
                          messages)
       /\ Issue({HttpGet("getPullRequestSuggestionsForRepository", i, 0,
                         repositoryId.id)})
  ELSE /\ JoinSuggestions([suggestionRequests EXCEPT ![i] =
                             [st |-> "done", listing |-> listing,
                              repositoryId |-> Def(repositoryId),
                              suggestions |-> Undefined,
                              result |-> Def(ArrayOf(<<>>))]],
                          messages)
       /\ NoRequestIssued

\* The repositories call of selector i answers with a body.
RepositoriesReturned(i, body) ==
  /\ suggestionRequests[i].st = "listing"
  /\ AfterRepositoryId(i, Resolved(TRUE, body),
                       FindRepositoryId(body, suggestionProjects[i].repository),
                       <<>>)
  /\ UNCHANGED suggestionProjects
  /\ SuggestionIdle

\* The repositories call of selector i fails, or answers with a null body on
\* which response.value throws: the catchError of getRepositoryId resolves
\* through handleHttpError, with {} where a string or null is expected.
RepositoriesFails(i, failure) ==
  /\ suggestionRequests[i].st = "listing"
  /\ LET h == handleHttpError("getRepositoryId", failure)
     IN  AfterRepositoryId(i, Resolved(FALSE, h.value), IdObject(h.value),
                           <<h.message>>)
  /\ UNCHANGED suggestionProjects
  /\ SuggestionIdle

SuggestionsResolve(i, ok, value, messages) ==
  /\ JoinSuggestions([suggestionRequests EXCEPT
                        ![i].st = "done",
                        ![i].suggestions = Resolved(ok, value),
                        ![i].result = Def(value)],
                     messages)
  /\ NoRequestIssued
  /\ UNCHANGED suggestionProjects
  /\ SuggestionIdle

\* The suggestions call of selector i answers with an array of n suggestions.
SuggestionsReturned(i, n) ==
  /\ suggestionRequests[i].st = "suggesting"
  /\ Val(suggestionRequests[i].repositoryId).kind = "string"
  /\ SuggestionsResolve(i, TRUE,
                        ArrayOf(ServerSuggestions(
                                  Val(suggestionRequests[i].repositoryId).id, n)),
                        <<>>)

\* The suggestions call answers with a body that is not an array: the map
\* returns [].
SuggestionsReturnedNoArray(i) ==
  /\ suggestionRequests[i].st = "suggesting"
  /\ Val(suggestionRequests[i].repositoryId).kind = "string"
  /\ SuggestionsResolve(i, TRUE, ArrayOf(<<>>), <<>>)

\* The suggestions call fails: resolved through handleHttpError with {}.
SuggestionsFails(i, status) ==
  /\ suggestionRequests[i].st = "suggesting"
  /\ LET h == handleHttpError("getPullRequestSuggestionsForRepository",
                              HttpErrorResponse(status))
     IN  SuggestionsResolve(i, FALSE, NotAnArray(h.value), <<h.message>>)

NextSuggest ==
  \/ \E projects \in SelectorLists : GetPullRequestSuggestions(projects)
  \/ \E i \in DOMAIN suggestionRequests, body \in ListingBodies :
       RepositoriesReturned(i, body)
  \/ \E i \in DOMAIN suggestionRequests,
        failure \in {HttpErrorResponse(status) : status \in CycleStatuses}
                    \cup {TypeError} :
       RepositoriesFails(i, failure)
  \/ \E i \in DOMAIN suggestionRequests, n \in 0..MaxSuggestions :
       SuggestionsReturned(i, n)
  \/ \E i \in DOMAIN suggestionRequests : SuggestionsReturnedNoArray(i)
  \/ \E i \in DOMAIN suggestionRequests, status \in CycleStatuses :
       SuggestionsFails(i, status)

SpecSuggest == Init /\ [][NextSuggest]_vars

\* ------------------------------------------------- properties: suggestions
ListingFailed(i) ==
  IsDefined(suggestionRequests[i].listing) /\ ~Val(suggestionRequests[i].listing).ok
SuggestionsFailed(i) ==
  IsDefined(suggestionRequests[i].suggestions)
    /\ ~Val(suggestionRequests[i].suggestions).ok
SuggestionsSucceeded(i) ==
  IsDefined(suggestionRequests[i].suggestions)
    /\ Val(suggestionRequests[i].suggestions).ok

\* C14 as stated: when the suggestion cycle has emitted and a sub-call of
\* some selector failed, the value emitted is an array and it holds every
\* suggestion returned for the other selectors.
C14_FailedSubCallEmptiesOnlyItsSelector ==
  ( /\ IsDefined(suggestionsEmitted)
    /\ \E i \in DOMAIN suggestionRequests : ListingFailed(i) \/ SuggestionsFailed(i) ) =>
    /\ Val(suggestionsEmitted).isArray
    /\ \A j \in DOMAIN suggestionRequests : SuggestionsSucceeded(j) =>
         LET returned == Val(suggestionRequests[j].suggestions).value.items
         IN  \A k \in DOMAIN returned :
               \E n \in DOMAIN Val(suggestionsEmitted).items :
                 Val(suggestionsEmitted).items[n] = returned[k]

\* C15 as stated: no HTTP call for a selector without repository; no
\* suggestions call for a selector whose repository matches no listed
\* repository, and no message on authError$ while no call has failed; and
\* every suggestions call carries the id of the first listed repository whose
\* name equals the selector's repository.
C15_SuggestionCallsOnlyForTheMatchedRepository ==
  /\ \A r \in issuedRequests : suggestionProjects[r.selector].repository # ""
  /\ (\A i \in DOMAIN suggestionRequests : ~ListingFailed(i) /\ ~SuggestionsFailed(i))
       => authErrorCount = 0
  /\ \A r \in issuedRequests :
       r.operation = "getPullRequestSuggestionsForRepository" =>
         LET request == suggestionRequests[r.selector]
             listing == Val(Val(request.listing).value.value)
             matches == {k \in DOMAIN listing :
                           listing[k].name = suggestionProjects[r.selector].repository}
         IN  /\ Val(request.listing).ok
             /\ IsDefined(Val(request.listing).value.value)
             /\ matches # {}
             /\ \E k \in matches :
                  /\ \A m \in matches : k <= m
                  /\ r.repositoryId = listing[k].id

\* ------------------------------------------------- properties: the joins
\* The raw fetch of selector i has answered, or the selector has none.
RawResolved(i) == NoRawFetch(i) \/ IsDefined(requests[i].raw)

\* C21 as stated: whatever getActivePullRequests has emitted, it emitted only
\* after the raw fetch of every selector had resolved and all three enrichment
\* calls of every returned pull request had settled.
C21_EmitsOnlyAfterEverySubCallSettled ==
  IsDefined(emitted) =>
    \A i \in DOMAIN requests : RawResolved(i) /\ AllSettled(requests[i])

\* ------------------------------------------------- properties: build discovery
\* The builds-by-source-branch call has been issued for pull request k of
\* selector i.
BranchBuildsIssued(i, k) ==
  \E r \in issuedRequests :
    /\ r.operation = "getPullRequestBuilds-branch"
    /\ r.selector = i
    /\ r.pullRequest = k

\* C22 as stated: the builds-by-source-branch call is issued for a pull request
\* exactly when the call that derives its builds from its statuses has failed.
C22_FailedStatusesCallFallsBackToBranchBuilds ==
  \A i \in DOMAIN requests : \A k \in DOMAIN requests[i].prs :
    CallFailed(requests[i].prs[k].builds) <=> BranchBuildsIssued(i, k)

\* ------------------------------------------------- SpecRelay: the relay
\* The stdout / stderr chunks relayed on one connection.
MaxData == 2

\* A text is a sequence of pieces; a piece is an ANSI colour code, white space
\* or plain text.
AnsiCodes == {"\\u001b[32m", "\\u001b[0m"}
WhiteSpace == {"\n"}

\* String.prototype.trim
RECURSIVE trim(_)
trim(text) ==
  IF text = <<>> THEN text
  ELSE IF Head(text) \in WhiteSpace THEN trim(Tail(text))
  ELSE IF text[Len(text)] \in WhiteSpace THEN trim(SubSeq(text, 1, Len(text) - 1))
  ELSE text

\* The chunks the helper prints.
HelperOutputs ==
  { <<"\\u001b[32m", "Token copied to clipboard", "\\u001b[0m", "\n">>,
    <<"Extending session", "\n">> }

\* An exit code is Def(n); the null of a helper ended by a signal is Undefined.
\* -2 is the code of the close event that follows a failed spawn.
SpawnFailureCode == 0 - 2

\* `data: ${JSON.stringify({type, message, timestamp[, exitCode]})}\n\n` as the
\* client parses it.
StreamEvent(type, message, exitCode) ==
  [type |-> type, message |-> Def(message), timestamp |-> Def("toISOString"),
   exitCode |-> exitCode]

\* 'data: {"type": "end"}\n\n': neither message nor timestamp.
EndEvent ==
  [type |-> "end", message |-> Undefined, timestamp |-> Undefined,
   exitCode |-> Undefined]

\* The response object of the connection.
Res == [events |-> resEvents, ended |-> responseEnded, late |-> writesAfterEnd]

\* res.write(event): a write after res.end() is not sent (write after end).
ResWrite(res, event) ==
  IF res.ended THEN [res EXCEPT !.late = @ + 1]
  ELSE [res EXCEPT !.events = Append(@, event)]

\* res.end()
ResEnd(res) ==
  IF res.ended THEN [res EXCEPT !.late = @ + 1]
  ELSE [res EXCEPT !.ended = TRUE]

\* The response after a handler; ending it closes an open connection.
SetRes(res) ==
  /\ resEvents' = res.events
  /\ responseEnded' = res.ended
  /\ writesAfterEnd' = res.late
  /\ connection' = IF res.ended /\ connection = "open" THEN "serverEnded"
                   ELSE connection

\* child.kill(signal): the signal is sent while the process handle exists, and
\* child.killed records that a signal was sent, not that the process ended.
Kill(signal) ==
  IF helper = "running"
  THEN /\ signals' = signals \cup {signal}
       /\ childKilled' = TRUE
  ELSE UNCHANGED <<signals, childKilled>>

RelayIdle == UNCHANGED <<serviceVars, viewVars, suggestionVars, functionVars>>

\* LogonStatus with every optional field; updateStatus spreads the partial
\* status over the current one.
updateStatus(current, status) ==
  [f \in DOMAIN current |-> IF f \in DOMAIN status THEN status[f] ELSE current[f]]

Now == Def("Date")

\* startEasyLogonWithStream() is called and subscribed: the EventSource
\* connects and the route handler writes the info event and spawns the helper.
\* spawns is whether the spawn succeeds; the activeProcesses map of the route
\* is only read by the stop endpoint and is left out.
StartEasyLogonWithStream(ignores, spawns) ==
  /\ connection = "none"
  /\ logonStatus' = updateStatus(logonStatus,
       [isRunning |-> TRUE, message |-> Def(<<"Starting login process...">>)])
  /\ eventSource' = "open"
  /\ observer' = "active"
  /\ connection' = "open"
  /\ resEvents' = <<StreamEvent("info", <<"Starting District Easy Logon process...">>, Undefined)>>
  /\ helper' = IF spawns THEN "running" ELSE "spawnFailed"
  /\ ignoresSigterm' = ignores
  /\ UNCHANGED <<childKilled, signals, killTimer, responseEnded, writesAfterEnd,
                 reqClosed, dataEvents, delivered, observed>>
  /\ RelayIdle

\* child.stdout.on("data") / child.stderr.on("data")
HelperData(type, text) ==
  /\ helper = "running"
  /\ dataEvents < MaxData
  /\ dataEvents' = dataEvents + 1
  /\ SetRes(ResWrite(Res, StreamEvent(type, trim(text), Undefined)))
  /\ UNCHANGED <<helper, ignoresSigterm, childKilled, signals, killTimer,
                 reqClosed, clientVars>>
  /\ RelayIdle

\* child.on("close", code)
CloseHandler(code) ==
  LET event == StreamEvent(IF code = Def(0) THEN "success" ELSE "error",
                           IF code = Def(0)
                           THEN <<"Login process completed successfully">>
                           ELSE <<"Login process failed with exit code", code>>,
                           Def(code))
  IN  SetRes(ResEnd(ResWrite(ResWrite(Res, event), EndEvent)))

\* The helper exits by itself with a code, and its close event is handled.
HelperExits(code) ==
  /\ helper = "running"
  /\ helper' = "exited"
  /\ CloseHandler(Def(code))
  /\ UNCHANGED <<ignoresSigterm, childKilled, signals, killTimer, reqClosed,
                 dataEvents, clientVars>>
  /\ RelayIdle

\* A delivered signal ends the helper: SIGKILL always, SIGTERM unless the helper
\* ignores it.  The close event carries the code null.
HelperKilled ==
  /\ helper = "running"
  /\ "SIGKILL" \in signals \/ ("SIGTERM" \in signals /\ ~ignoresSigterm)
  /\ helper' = "exited"
  /\ CloseHandler(Undefined)
  /\ UNCHANGED <<ignoresSigterm, childKilled, signals, killTimer, reqClosed,
                 dataEvents, clientVars>>
  /\ RelayIdle

\* child.on("error"): the helper could not be spawned.
SpawnError ==
  /\ helper = "spawnFailed"
  /\ helper' = "errored"
  /\ SetRes(ResEnd(ResWrite(ResWrite(Res,
       StreamEvent("error", <<"Process error: ", "spawn node ENOENT">>, Undefined)),
       EndEvent)))
  /\ UNCHANGED <<ignoresSigterm, childKilled, signals, killTimer, reqClosed,
                 dataEvents, clientVars>>
  /\ RelayIdle

\* The close event Node emits after the error event of a failed spawn.
CloseAfterError ==
  /\ helper = "errored"
  /\ helper' = "exited"
  /\ CloseHandler(Def(SpawnFailureCode))
  /\ UNCHANGED <<ignoresSigterm, childKilled, signals, killTimer, reqClosed,
                 dataEvents, clientVars>>
  /\ RelayIdle

\* req.on("close"): the consuming connection has closed.
ReqClose ==
  /\ connection \in {"lost", "clientClosed", "serverEnded"}
  /\ ~reqClosed
  /\ reqClosed' = TRUE
  /\ Kill("SIGTERM")
  /\ killTimer' = "armed"
  /\ UNCHANGED <<connection, helper, ignoresSigterm, resEvents, responseEnded,
                 writesAfterEnd, dataEvents, clientVars>>
  /\ RelayIdle

\* The callback of the setTimeout of req.on("close"), 5000 ms later.
GraceElapses ==
  /\ killTimer = "armed"
  /\ killTimer' = "fired"
  /\ IF ~childKilled THEN Kill("SIGKILL") ELSE UNCHANGED <<signals, childKilled>>
  /\ UNCHANGED <<connection, helper, ignoresSigterm, resEvents, responseEnded,
                 writesAfterEnd, reqClosed, dataEvents, clientVars>>
  /\ RelayIdle

\* ------------------------------------------------- SpecRelay: the client
\* stripAnsiCodes(text): text.replace(/\u001b\[[0-9;]*m/g, "").  It throws a
\* TypeError when text is undefined.
stripAnsiCodesThrows(text) == ~IsDefined(text)
stripAnsiCodes(text) == SelectSeq(Val(text), LAMBDA piece : piece \notin AnsiCodes)

\* logToConsole(message) throws when stripAnsiCodes does; new Date(undefined)
\* is an Invalid Date whose toLocaleTimeString() does not throw.
logToConsoleThrows(message) == stripAnsiCodesThrows(message.message)

\* The teardown of the observable: RxJS runs it on unsubscribe, and after
\* observer.complete() and observer.error().
Teardown(status) ==
  updateStatus(status, [isRunning |-> FALSE,
                        message |-> Def(<<"Process interrupted">>)])

\* eventSource.close() closes a connection that is still open.
CloseEventSource ==
  /\ eventSource' = "closed"
  /\ connection' = IF connection = "open" THEN "clientClosed" ELSE connection

\* The status after the if / else if of onmessage.
StatusAfter(message) ==
  CASE message.type = "success" ->
         updateStatus(logonStatus, [isRunning |-> FALSE, lastRun |-> Now,
                                    lastSuccess |-> Def(TRUE), message |-> message.message])
    [] message.type = "error" ->
         updateStatus(logonStatus, [isRunning |-> FALSE, lastRun |-> Now,
                                    lastSuccess |-> Def(FALSE), message |-> message.message])
    [] message.type = "stdout" ->
         updateStatus(logonStatus, [isRunning |-> TRUE, message |-> message.message])
    [] OTHER -> logonStatus

\* eventSource.onmessage: the next event of the response reaches the client.
\* An exception of the try block is caught and logged, and the rest of the
\* block is skipped.
OnMessage ==
  /\ eventSource = "open"
  /\ connection \in {"open", "serverEnded"}
  /\ delivered < Len(resEvents)
  /\ delivered' = delivered + 1
  /\ LET message == resEvents[delivered + 1]
     IN  IF logToConsoleThrows(message)
         THEN UNCHANGED <<eventSource, connection, observer, observed, logonStatus>>
         ELSE /\ observed' = Append(observed, message)
              /\ IF message.type = "end"
                 THEN /\ CloseEventSource
                      /\ observer' = "completed"
                      /\ logonStatus' = Teardown(StatusAfter(message))
                 ELSE /\ logonStatus' = StatusAfter(message)
                      /\ UNCHANGED <<eventSource, connection, observer>>
  /\ UNCHANGED <<helper, ignoresSigterm, childKilled, signals, killTimer,
                 resEvents, responseEnded, writesAfterEnd, reqClosed, dataEvents>>
  /\ RelayIdle

\* eventSource.onerror: the connection was lost, or the server ended the
\* response and every event written before has been delivered.
OnError ==
  /\ eventSource = "open"
  /\ \/ connection = "lost"
     \/ connection = "serverEnded" /\ delivered = Len(resEvents)
  /\ eventSource' = "closed"
  /\ observer' = "errored"
  /\ logonStatus' = Teardown(updateStatus(logonStatus,
       [isRunning |-> FALSE, lastRun |-> Now, lastSuccess |-> Def(FALSE),
        message |-> Def(<<"Connection error occurred">>)]))
  /\ UNCHANGED <<relayVars, delivered, observed>>
  /\ RelayIdle

\* The subscriber unsubscribes: the teardown runs.
Unsubscribe ==
  /\ observer = "active"
  /\ observer' = "unsubscribed"
  /\ CloseEventSource
  /\ logonStatus' = Teardown(logonStatus)
  /\ UNCHANGED <<helper, ignoresSigterm, childKilled, signals, killTimer,
                 resEvents, responseEnded, writesAfterEnd, reqClosed, dataEvents,
                 delivered, observed>>
  /\ RelayIdle

\* The network drops the connection.
ConnectionLost ==
  /\ connection = "open"
  /\ connection' = "lost"
  /\ UNCHANGED <<helper, ignoresSigterm, childKilled, signals, killTimer,
                 resEvents, responseEnded, writesAfterEnd, reqClosed, dataEvents,
                 clientVars>>
  /\ RelayIdle

NextRelay ==
  \/ \E ignores \in BOOLEAN, spawns \in BOOLEAN :
       StartEasyLogonWithStream(ignores, spawns)
  \/ \E type \in {"stdout", "stderr"}, text \in HelperOutputs : HelperData(type, text)
  \/ \E code \in {0, 1} : HelperExits(code)
  \/ HelperKilled
  \/ SpawnError
  \/ CloseAfterError
  \/ ReqClose
  \/ GraceElapses
  \/ OnMessage
  \/ OnError
  \/ Unsubscribe
  \/ ConnectionLost

SpecRelay == Init /\ [][NextRelay]_vars

\* ------------------------------------------------- properties: the relay
\* C23 as stated: once the consuming connection has closed, a helper that was
\* running has been sent SIGTERM, and a helper that is still running when the
\* grace period has elapsed has been sent SIGKILL.
C23_DisconnectEscalatesToSigkill ==
  /\ (reqClosed /\ helper = "running") => "SIGTERM" \in signals
  /\ (killTimer = "fired" /\ helper = "running") => "SIGKILL" \in signals

\* The end events written to the response.
EndEvents == {n \in DOMAIN resEvents : resEvents[n].type = "end"}

\* C30 as stated: the relay never writes to or ends the response after it has
\* ended it, and the end event is written exactly once, as the last event, by
\* the handler that ends the response.
C30_EndEventOnceAndLast ==
  /\ writesAfterEnd = 0
  /\ IF responseEnded THEN EndEvents = {Len(resEvents)} ELSE EndEvents = {}

\* The helper of the connection exited with code 0.
ExitedWithZero ==
  \E n \in DOMAIN resEvents : resEvents[n].exitCode = Def(Def(0))

\* C29 as stated: in a run whose helper exits with code 0, with the connection
\* not lost and the subscriber not unsubscribing, the client stream does not
\* error, and once every event of the ended response has been handled the
\* success message has been delivered, the event source is closed, the stream
\* has completed, and the status has isRunning false and lastSuccess true.
C29_ExitZeroCompletesWithSuccess ==
  (ExitedWithZero /\ connection # "lost" /\ observer # "unsubscribed") =>
    /\ observer # "errored"
    /\ (responseEnded /\ delivered = Len(resEvents)) =>
         /\ \E n \in DOMAIN observed : observed[n].type = "success"
         /\ eventSource = "closed"
         /\ observer = "completed"
         /\ logonStatus.isRunning = FALSE
         /\ logonStatus.lastSuccess = Def(TRUE)

\* ------------------------------------------------- SpecBuilds
\* The map of getPullRequestBuildsFromTimeline applied to every bounded list
\* of statuses.
MaxStatuses == 2

InitBuilds ==
  /\ cycle = "idle"
  /\ projectsToUse = <<>>
  /\ requests = <<>>
  /\ emitted = Undefined
  /\ lastAuthError = Undefined
  /\ authErrorCount = 0
  /\ enrichIn = NoEnrichInput
  /\ enriched = Undefined
  /\ classifyIn = NoClassifyInput
  /\ classified = Undefined
  /\ CredentialInit
  /\ ViewInit
  /\ SuggestionInit
  /\ RelayInit
  /\ statusesResponse \in SeqUpTo(StatusEvent, MaxStatuses)
  /\ timelineBuilds = Undefined
  /\ currentPr = Undefined
  /\ cardPullRequests = <<>>
  /\ related = Undefined

\* The statuses call answers and its map derives the builds.
DeriveBuilds ==
  /\ ~IsDefined(timelineBuilds)
  /\ timelineBuilds' = Def(BuildsFromStatuses(statusesResponse))
  /\ UNCHANGED <<serviceVars, viewVars, suggestionVars, relayVars, clientVars,
                 statusesResponse, currentPr, cardPullRequests, related>>

NextBuilds == DeriveBuilds

SpecBuilds == InitBuilds /\ [][NextBuilds]_vars

\* The positions of the continuous-integration statuses, in order.
CIPositions ==
  SelectSeq([n \in DOMAIN statusesResponse |-> n],
            LAMBDA n : /\ statusesResponse[n].context # Undefined
                       /\ Val(statusesResponse[n].context).genre = "continuous-integration")

\* C24: the derived builds are, in order, one record per status whose context
\* genre is "continuous-integration" and none for any other status; with the
\* state compared in lower case, succeeded, failed and error give status
\* completed, pending gives inProgress and every other state notStarted; the
\* result is succeeded for succeeded, failed for failed and error, undefined
\* otherwise; so the result is defined exactly when the status is completed.
C24_BuildRecordsFollowStatusState ==
  IsDefined(timelineBuilds) =>
    LET builds == Val(timelineBuilds)
    IN  /\ Len(builds) = Len(CIPositions)
        /\ \A k \in DOMAIN builds :
             LET state == toLowerCase(statusesResponse[CIPositions[k]].state)
             IN  /\ builds[k].status =
                      (IF state \in {"succeeded", "failed", "error"} THEN "completed"
                       ELSE IF state = "pending" THEN "inProgress" ELSE "notStarted")
                 /\ builds[k].result =
                      (IF state = "succeeded" THEN Def("succeeded")
                       ELSE IF state \in {"failed", "error"} THEN Def("failed")
                       ELSE Undefined)
                 /\ IsDefined(builds[k].result) <=> builds[k].status = "completed"

\* A status without context and a continuous-integration status in state error
\* gave one build: completed, with result failed.
C24_Witness ==
  /\ statusesResponse =
       << [context |-> Undefined, state |-> "succeeded"],
          [context |-> Def([genre |-> "continuous-integration"]), state |-> "error"] >>
  /\ IsDefined(timelineBuilds)
  /\ Len(Val(timelineBuilds)) = 1
  /\ Val(timelineBuilds)[1].status = "completed"
  /\ Val(timelineBuilds)[1].result = Def("failed")

\* ------------------------------------------------- SpecRelated
\* getRelatedPullRequests of PullRequestCardComponent applied to every card and
\* every bounded allPullRequests.
MaxCards == 2

\* A title is the sequence of words title.split(/\s+/) yields.
Titles ==
  { <<"Update", "login", "form", "validation">>,
    <<"Fix", "LOGIN", "form", "update">>,
    <<"Bump", "deps">> }

\* word.length
WordLength(word) ==
  CASE word \in {"fix"} -> 3
    [] word \in {"form", "bump", "deps"} -> 4
    [] word = "login" -> 5
    [] word = "update" -> 6
    [] word = "validation" -> 10

CardPullRequests ==
  [pullRequestId : 1..2,
   repository : [name : {"RepoX", "RepoY"}],
   createdBy : [uniqueName : {"alice@example.com", "bob@example.com"}],
   title : Titles]

\* title.toLowerCase().split(/\s+/).filter((word) => word.length > 3)
SignificantWords(title) ==
  SelectSeq([n \in DOMAIN title |-> toLowerCase(title[n])],
            LAMBDA word : WordLength(word) > 3)

Includes(words, word) == \E n \in DOMAIN words : words[n] = word

\* The score the forEach of getRelatedPullRequests gives otherPr.
RelatedScore(current, otherPr) ==
  LET currentWords == SignificantWords(current.title)
      otherWords == SignificantWords(otherPr.title)
      commonWords == SelectSeq(currentWords, LAMBDA word : Includes(otherWords, word))
      base == IF /\ current.repository.name = otherPr.repository.name
                 /\ current.createdBy.uniqueName = otherPr.createdBy.uniqueName
              THEN 50
              ELSE IF current.repository.name = otherPr.repository.name THEN 15
              ELSE IF current.createdBy.uniqueName = otherPr.createdBy.uniqueName THEN 10
              ELSE 0
  IN  base + (IF Len(commonWords) >= 3 /\ Len(currentWords) >= 3 THEN 20 ELSE 0)

\* getRelatedPullRequests(pr): the candidates are the other pull requests, by
\* pullRequestId, that score at least 30; the stable sort by descending score
\* puts first the earliest candidate of the highest score.
getRelatedPullRequests(pr, all) ==
  LET candidates ==
        SelectSeq(all, LAMBDA otherPr :
                    /\ otherPr.pullRequestId # pr.pullRequestId
                    /\ RelatedScore(pr, otherPr) >= 30)
      top == CHOOSE n \in DOMAIN candidates :
               /\ \A m \in DOMAIN candidates :
                    RelatedScore(pr, candidates[m]) <= RelatedScore(pr, candidates[n])
               /\ \A m \in 1..(n - 1) :
                    RelatedScore(pr, candidates[m]) < RelatedScore(pr, candidates[n])
  IN  IF Len(all) = 0 \/ Len(candidates) = 0 THEN <<>> ELSE <<candidates[top]>>

InitRelated ==
  /\ cycle = "idle"
  /\ projectsToUse = <<>>
  /\ requests = <<>>
  /\ emitted = Undefined
  /\ lastAuthError = Undefined
  /\ authErrorCount = 0
  /\ enrichIn = NoEnrichInput
  /\ enriched = Undefined
  /\ classifyIn = NoClassifyInput
  /\ classified = Undefined
  /\ CredentialInit
  /\ ViewInit
  /\ SuggestionInit
  /\ RelayInit
  /\ statusesResponse = <<>>
  /\ timelineBuilds = Undefined
  /\ currentPr \in {Def(pr) : pr \in CardPullRequests}
  /\ cardPullRequests \in SeqUpTo(CardPullRequests, MaxCards)
  /\ related = Undefined

\* The card's template calls getRelatedPullRequests(pullRequest).
GetRelatedPullRequests ==
  /\ ~IsDefined(related)
  /\ related' = Def(getRelatedPullRequests(Val(currentPr), cardPullRequests))
  /\ UNCHANGED <<serviceVars, viewVars, suggestionVars, relayVars, clientVars,
                 statusesResponse, timelineBuilds, currentPr, cardPullRequests>>

NextRelated == GetRelatedPullRequests

SpecRelated == InitRelated /\ [][NextRelated]_vars

\* The identity of a pull request: ids are unique only within a repository.
Identity(pr) == <<pr.repository.name, pr.pullRequestId>>

\* The other pull requests of the card's collection.
OtherPullRequests ==
  {n \in DOMAIN cardPullRequests :
     Identity(cardPullRequests[n]) # Identity(Val(currentPr))}

\* The score as the specification states it.
SharedWords(a, b) ==
  {word \in {SignificantWords(a.title)[n] : n \in DOMAIN SignificantWords(a.title)} :
     Includes(SignificantWords(b.title), word)}

StatedScore(otherPr) ==
  LET pr == Val(currentPr)
      sameRepository == pr.repository.name = otherPr.repository.name
      sameAuthor == pr.createdBy.uniqueName = otherPr.createdBy.uniqueName
  IN  (IF sameRepository /\ sameAuthor THEN 50
       ELSE IF sameRepository THEN 15
       ELSE IF sameAuthor THEN 10 ELSE 0)
      + (IF Cardinality(SharedWords(pr, otherPr)) >= 3 THEN 20 ELSE 0)

\* C25 as stated: getRelatedPullRequests(pr) returns at most one pull request,
\* never one with pr's identity; it returns one iff some other pull request,
\* one of a different (repository, pullRequestId), scores at least 30, and the
\* one returned is another pull request of the highest score.
C25_RelatedIsTheTopScoringOther ==
  IsDefined(related) =>
    LET result == Val(related)
    IN  /\ Len(result) <= 1
        /\ Len(result) = 1 => Identity(result[1]) # Identity(Val(currentPr))
        /\ Len(result) = 1 <=>
             \E n \in OtherPullRequests : StatedScore(cardPullRequests[n]) >= 30
        /\ Len(result) = 1 =>
             /\ \E n \in OtherPullRequests : cardPullRequests[n] = result[1]
             /\ \A n \in OtherPullRequests :
                  StatedScore(cardPullRequests[n]) <= StatedScore(result[1])

\* ------------------------------------------------- properties: the loading flag
\* C26 as stated: isLoading is true exactly while some refresh started by
\* loadPullRequests has not delivered its response yet.
C26_IsLoadingWhileARefreshIsInFlight ==
  isLoading <=> inFlightRefreshes # {}

\* ------------------------------------------------- properties: project updates
\* C27 as stated: a project-list update made through onProjectsUpdated starts
\* exactly one aggregation refresh.
C27_ProjectUpdateStartsOneRefresh ==
  [][currentProjects' # currentProjects =>
       Cardinality(inFlightRefreshes' \ inFlightRefreshes) = 1]_vars

\* ------------------------------------------------- properties: notifications
\* The calls of the suggestion cycle whose catchError has run.
FailedSuggestionCalls ==
  Cardinality({i \in DOMAIN suggestionRequests : ListingFailed(i)})
    + Cardinality({i \in DOMAIN suggestionRequests : SuggestionsFailed(i)})

\* C28 as stated, for the suggestion cycle: authError$ has carried one message
\* per failed call, and, no call of the cycle failing with status 0, never the
\* network message.
C28_OneNotificationPerFailedCall ==
  /\ authErrorCount = FailedSuggestionCalls
  /\ lastAuthError # Def(MsgNetwork)

====
